---- MODULE Spec2Model ----
(***************************************************************************)
(* Task dependency and sprint lifecycle engine of the project-management   *)
(* backend (routers/tasks.py, routers/sprints.py, models.py).              *)
(*                                                                         *)
(* The persistence store is modelled as three tables keyed by identity:    *)
(*   tasks     : task id   -> Task row                                     *)
(*   task_info : task id   -> the TaskInfo rows of that task, oldest first *)
(*   sprints   : sprint id -> Sprint row                                   *)
(* Every request handler is one action (its reads, writes and commits      *)
(* taken together).  A rejected request (HTTPException) changes nothing    *)
(* but the response.  Identities come from autoincrement counters.         *)
(* Python's None and 0 are both falsy in every test the handlers make on   *)
(* an identity, so a missing reference is written None == 0.               *)
(***************************************************************************)
EXTENDS Integers, Sequences, FiniteSets, TLC

\* ---------------------------------------------------------------- bounds
MaxTaskId == 3      \* create_task is explored while the task counter is <= this
MaxUpdates == 2     \* TaskInfo rows beyond one per task in the dependency specification
MaxRows == 15       \* a step is explored while it leaves at most this many TaskInfo rows
MaxTime == 2        \* the clock is advanced while it is below this
MaxSprintId == 2    \* create_sprint is explored while the sprint counter is <= this

\* ------------------------------------------------------ program constants
MinSprintTasks == 5     \* launch_sprint: len(tasks) < 5 is rejected

\* ------------------------------------------------------- enumerated types
None == 0

NOT_AVAILABLE == "not available"
AVAILABLE == "available"
WAIT == "wait"
COMPLETE == "complete"
TESTING == "testing"
IN_PROGRESS == "in progress"
FEEDBACK == "feedback"
TaskStatus == {NOT_AVAILABLE, AVAILABLE, WAIT, COMPLETE, TESTING, IN_PROGRESS, FEEDBACK}

DT_NONE == "None"
FS == "FS"
SS == "SS"
DependencyType == {DT_NONE, FS, SS}

ONE_WEEK == "1week"
TWO_WEEKS == "2weeks"
THREE_WEEKS == "3weeks"
FOUR_WEEKS == "4weeks"
SprintDuration == {ONE_WEEK, TWO_WEEKS, THREE_WEEKS, FOUR_WEEKS}

Manager == "Manager"
Tester == "Tester"
User == "User"

\* --------------------------------------------- users, projects, membership
\* The user, project and user_project tables are fixed: user 1 owns both
\* projects, user 2 is a worker (role User) and a member of project 1, user 3
\* is a tester and user 4 a second worker of project 1 and the worker of
\* project 2.
Projects == {1, 2}
Users == {1, 2, 3, 4}
owner_id(project_id) == 1
role(user_id) == CASE user_id = 1 -> Manager
                   [] user_id = 3 -> Tester
                   [] OTHER -> User
UserProject == {<<2, 1>>, <<4, 1>>, <<4, 2>>}

check_project_permission(user_id, project_id) ==
    IF project_id \notin Projects THEN FALSE
    ELSE IF owner_id(project_id) = user_id THEN TRUE
    ELSE <<user_id, project_id>> \in UserProject /\ role(user_id) = Manager

\* ------------------------------------------------------------------ state
VARIABLES tasks, task_info, sprints, projects, next_task_id, next_sprint_id, now,
          resp, ret

vars == <<tasks, task_info, sprints, projects, next_task_id, next_sprint_id, now, resp, ret>>

\* a project row: models.Project.complete and end_date
Project == [complete |-> FALSE, end_date |-> None]

Task(status, project_id, worker_id, dependent_on, dependency_type) ==
    [status |-> status, dependent_on |-> dependent_on,
     dependency_type |-> dependency_type, worker_id |-> worker_id,
     sprint_id |-> None, project_id |-> project_id]

Sprint(duration, project_id) ==
    [duration |-> duration, start_date |-> None, end_date |-> None,
     is_active |-> FALSE, is_completed |-> FALSE, project_id |-> project_id]

\* db.add(TaskInfo(task_num = t, task_status = s)) on the table info
\* a recording that overwrites the task's rows with the new one
TaskInfo_overwrite(info, t, s) ==
    [info EXCEPT ![t] = <<s>>]

TaskInfo(info, t, s) ==
    [info EXCEPT ![t] = Append(@, s)]

\* the outcome of the last step.  A served request leaves its operation, its
\* caller, the id in its path, the id in its body and its status code; detail
\* is the error list of a failed dependency validation.
Response(op, user, id, arg, code) ==
    [op |-> op, user |-> user, id |-> id, arg |-> arg, code |-> code, detail |-> <<>>]

\* raise HTTPException(status_code = code): nothing is committed, and the
\* caller is left with the operation's error code
HTTPException(op, code) ==
    /\ resp' = Response(op, None, None, None, code)
    /\ UNCHANGED <<tasks, task_info, sprints, next_task_id, next_sprint_id, now, ret, projects>>

\* ------------------------------------------- dependency graph validator
\* a satisfaction check whose SS threshold forgets FEEDBACK
check_dependency_status_no_feedback(T, task) ==
    IF task.dependent_on = None THEN TRUE
    ELSE IF task.dependent_on \notin DOMAIN T THEN FALSE
    ELSE IF task.dependency_type = FS
        THEN T[task.dependent_on].status = COMPLETE
    ELSE IF task.dependency_type = SS
        THEN T[task.dependent_on].status \in {IN_PROGRESS, TESTING, COMPLETE}
    ELSE FALSE

check_dependency_status(T, task) ==
    IF task.dependent_on = None THEN TRUE
    ELSE IF task.dependent_on \notin DOMAIN T THEN FALSE
    ELSE IF task.dependency_type = FS
        THEN T[task.dependent_on].status = COMPLETE
    ELSE IF task.dependency_type = SS
        THEN T[task.dependent_on].status \in {IN_PROGRESS, TESTING, FEEDBACK, COMPLETE}
    ELSE FALSE

\* the while loop of check_circular_dependency, (current, visited) its state
RECURSIVE circular_walk(_, _, _, _)
circular_walk(T, task_id, current, visited) ==
    IF current = None THEN FALSE
    ELSE IF current = task_id THEN TRUE
    ELSE IF current \in visited THEN TRUE
    ELSE IF current \notin DOMAIN T \/ T[current].dependent_on = None THEN FALSE
    ELSE circular_walk(T, task_id, T[current].dependent_on, visited \cup {current})

\* a cycle check that looks at the proposed prerequisite only, not at its chain
check_circular_dependency_direct(T, task_id, dependency_id) ==
    dependency_id = task_id

\* a cycle check that does not see a task named as its own prerequisite
check_circular_dependency_no_self(T, task_id, dependency_id) ==
    dependency_id # task_id /\ circular_walk(T, task_id, dependency_id, {})

check_circular_dependency(T, task_id, dependency_id) ==
    circular_walk(T, task_id, dependency_id, {})

\* reactive propagation after a task reached COMPLETE
\* a propagation that also wakes the dependents of the dependents
check_dependent_tasks_transitive(T, completed_task_id) ==
    LET direct == {t \in DOMAIN T : T[t].dependent_on = completed_task_id} IN
    [t \in DOMAIN T |->
        IF /\ (t \in direct \/ T[t].dependent_on \in direct)
           /\ T[t].dependency_type = FS
           /\ T[t].status = WAIT
        THEN [T[t] EXCEPT !.status = AVAILABLE] ELSE T[t]]

check_dependent_tasks(T, completed_task_id) ==
    [t \in DOMAIN T |->
        IF /\ T[t].dependent_on = completed_task_id
           /\ T[t].dependency_type = FS
           /\ T[t].status = WAIT
        THEN [T[t] EXCEPT !.status = AVAILABLE] ELSE T[t]]

\* a start propagation that releases the waiting dependents of either kind
check_ss_dependent_tasks_any_kind(T, started_task_id) ==
    [t \in DOMAIN T |->
        IF T[t].dependent_on = started_task_id /\ T[t].status = WAIT
        THEN [T[t] EXCEPT !.status = AVAILABLE] ELSE T[t]]

\* reactive propagation after a task reached IN_PROGRESS
check_ss_dependent_tasks(T, started_task_id) ==
    [t \in DOMAIN T |->
        IF /\ T[t].dependent_on = started_task_id
           /\ T[t].dependency_type = SS
           /\ T[t].status = WAIT
        THEN [T[t] EXCEPT !.status = AVAILABLE] ELSE T[t]]

\* a propagation that moves the dependents and writes no TaskInfo row
propagation_info_none(info, T, T2) == info

\* the TaskInfo rows both propagation functions add: one AVAILABLE row for
\* every task the propagation moved
propagation_info(info, T, T2) ==
    [t \in DOMAIN info |->
        IF t \in DOMAIN T /\ T[t].status # T2[t].status
        THEN Append(info[t], AVAILABLE) ELSE info[t]]

\* the task's sprint exists and is active (the test the four transitions share)
in_active_sprint(task) ==
    /\ task.sprint_id # None
    /\ task.sprint_id \in DOMAIN sprints
    /\ sprints[task.sprint_id].is_active

\* ---------------------------------------------------------- routers/tasks
create_task(user, project_id, worker_id, dependent_on, dependency_type) ==
    LET Reject(code) == HTTPException("create_task", code) IN
    IF project_id \notin Projects THEN Reject(404)
    ELSE IF ~check_project_permission(user, project_id) THEN Reject(403)
    ELSE IF worker_id # None /\ worker_id \notin Users THEN Reject(404)
    ELSE IF worker_id # None /\ role(worker_id) # User THEN Reject(400)
    ELSE IF worker_id # None /\ <<worker_id, project_id>> \notin UserProject THEN Reject(400)
    ELSE IF dependent_on # None /\ dependent_on \notin DOMAIN tasks THEN Reject(404)
    ELSE IF dependent_on # None /\ tasks[dependent_on].project_id # project_id THEN Reject(400)
    ELSE
        /\ tasks' = [t \in DOMAIN tasks \cup {next_task_id} |->
                        IF t = next_task_id
                        THEN Task(NOT_AVAILABLE, project_id, worker_id,
                                  dependent_on, dependency_type)
                        ELSE tasks[t]]
        /\ task_info' = [t \in DOMAIN task_info \cup {next_task_id} |->
                        IF t = next_task_id THEN <<NOT_AVAILABLE>> ELSE task_info[t]]
        /\ next_task_id' = next_task_id + 1
        /\ resp' = Response("create_task", user, project_id, dependent_on, 201)
        /\ UNCHANGED <<sprints, next_sprint_id, now, ret, projects>>

start_task(user, task_id) ==
    LET Reject(code) == HTTPException("start_task", code) IN
    IF task_id \notin DOMAIN tasks THEN Reject(404)
    ELSE IF tasks[task_id].worker_id # user THEN Reject(403)
    ELSE IF tasks[task_id].status \notin {AVAILABLE, FEEDBACK} THEN Reject(400)
    ELSE IF tasks[task_id].sprint_id = None THEN Reject(400)
    ELSE IF ~in_active_sprint(tasks[task_id]) THEN Reject(400)
    ELSE
        LET T1 == [tasks EXCEPT ![task_id].status = IN_PROGRESS]
            I1 == TaskInfo(task_info, task_id, IN_PROGRESS)
            T2 == check_ss_dependent_tasks(T1, task_id)
        IN  /\ tasks' = T2
            /\ task_info' = propagation_info(I1, T1, T2)
            /\ resp' = Response("start_task", user, task_id, None, 200)
            /\ UNCHANGED <<sprints, next_task_id, next_sprint_id, now, ret, projects>>

mark_task_as_testing(user, task_id) ==
    LET Reject(code) == HTTPException("mark_task_as_testing", code) IN
    IF task_id \notin DOMAIN tasks THEN Reject(404)
    ELSE IF tasks[task_id].worker_id # user THEN Reject(403)
    ELSE IF tasks[task_id].status # IN_PROGRESS THEN Reject(400)
    ELSE IF tasks[task_id].sprint_id = None THEN Reject(400)
    ELSE IF ~in_active_sprint(tasks[task_id]) THEN Reject(400)
    ELSE
        /\ tasks' = [tasks EXCEPT ![task_id].status = TESTING]
        /\ task_info' = TaskInfo(task_info, task_id, TESTING)
        /\ resp' = Response("mark_task_as_testing", user, task_id, None, 200)
        /\ UNCHANGED <<sprints, next_task_id, next_sprint_id, now, ret, projects>>

mark_task_as_feedback(user, task_id) ==
    LET Reject(code) == HTTPException("mark_task_as_feedback", code) IN
    IF role(user) # Tester THEN Reject(403)
    ELSE IF task_id \notin DOMAIN tasks THEN Reject(404)
    ELSE IF tasks[task_id].status # TESTING THEN Reject(400)
    ELSE IF tasks[task_id].sprint_id = None THEN Reject(400)
    ELSE IF ~in_active_sprint(tasks[task_id]) THEN Reject(400)
    ELSE
        /\ tasks' = [tasks EXCEPT ![task_id].status = FEEDBACK]
        /\ task_info' = TaskInfo(task_info, task_id, FEEDBACK)
        /\ resp' = Response("mark_task_as_feedback", user, task_id, None, 200)
        /\ UNCHANGED <<sprints, next_task_id, next_sprint_id, now, ret, projects>>

\* a mark_task_as_complete that does not ask for the tester role
mark_task_as_complete_any_role(user, task_id) ==
    IF task_id \notin DOMAIN tasks THEN HTTPException("mark_task_as_complete", 404)
    ELSE IF tasks[task_id].status # TESTING THEN HTTPException("mark_task_as_complete", 400)
    ELSE IF ~in_active_sprint(tasks[task_id])
        THEN HTTPException("mark_task_as_complete", 400)
    ELSE
        LET T1 == [tasks EXCEPT ![task_id].status = COMPLETE]
            I1 == TaskInfo(task_info, task_id, COMPLETE)
            T2 == check_dependent_tasks(T1, task_id)
        IN  /\ tasks' = T2
            /\ task_info' = [t \in DOMAIN I1 |->
                    IF T1[t].status # T2[t].status
                    THEN Append(I1[t], AVAILABLE) ELSE I1[t]]
            /\ resp' = Response("mark_task_as_complete", user, task_id, None, 200)
            /\ UNCHANGED <<sprints, next_task_id, next_sprint_id, now, ret, projects>>

mark_task_as_complete(user, task_id) ==
    LET Reject(code) == HTTPException("mark_task_as_complete", code) IN
    IF role(user) # Tester THEN Reject(403)
    ELSE IF task_id \notin DOMAIN tasks THEN Reject(404)
    ELSE IF tasks[task_id].status # TESTING THEN Reject(400)
    ELSE IF tasks[task_id].sprint_id = None THEN Reject(400)
    ELSE IF ~in_active_sprint(tasks[task_id]) THEN Reject(400)
    ELSE
        LET T1 == [tasks EXCEPT ![task_id].status = COMPLETE]
            I1 == TaskInfo(task_info, task_id, COMPLETE)
            T2 == check_dependent_tasks(T1, task_id)
        IN  /\ tasks' = T2
            /\ task_info' = propagation_info(I1, T1, T2)
            /\ resp' = Response("mark_task_as_complete", user, task_id, None, 200)
            /\ UNCHANGED <<sprints, next_task_id, next_sprint_id, now, ret, projects>>

\* an update_task_dependency that stores the new link before the cycle check
update_task_dependency_write_first(user, task_id, dependent_on, dependency_type) ==
    IF task_id \notin DOMAIN tasks THEN HTTPException("update_task_dependency", 404)
    ELSE IF ~check_project_permission(user, tasks[task_id].project_id)
        THEN HTTPException("update_task_dependency", 403)
    ELSE IF dependent_on # None /\ dependent_on \notin DOMAIN tasks
        THEN HTTPException("update_task_dependency", 404)
    ELSE
        LET T1 == [tasks EXCEPT ![task_id].dependent_on = dependent_on,
                                ![task_id].dependency_type = dependency_type]
            ok == \/ dependent_on = None
                  \/ /\ tasks[dependent_on].project_id = tasks[task_id].project_id
                     /\ ~check_circular_dependency(tasks, task_id, dependent_on)
        IN  /\ tasks' = T1
            /\ task_info' = IF ok THEN TaskInfo(task_info, task_id, T1[task_id].status)
                            ELSE task_info
            /\ resp' = IF ok
                       THEN Response("update_task_dependency", user, task_id, dependent_on, 200)
                       ELSE Response("update_task_dependency", None, None, None, 400)
            /\ UNCHANGED <<sprints, next_task_id, next_sprint_id, now, ret, projects>>

update_task_dependency(user, task_id, dependent_on, dependency_type) ==
    LET Reject(code) == HTTPException("update_task_dependency", code) IN
    IF task_id \notin DOMAIN tasks THEN Reject(404)
    ELSE IF ~check_project_permission(user, tasks[task_id].project_id) THEN Reject(403)
    ELSE IF dependent_on # None /\ dependent_on \notin DOMAIN tasks THEN Reject(404)
    ELSE IF dependent_on # None
            /\ tasks[dependent_on].project_id # tasks[task_id].project_id THEN Reject(400)
    ELSE IF dependent_on # None
            /\ check_circular_dependency(tasks, task_id, dependent_on) THEN Reject(400)
    ELSE
        LET T1 == [tasks EXCEPT ![task_id].dependent_on = dependent_on,
                                ![task_id].dependency_type = dependency_type]
            status == IF in_active_sprint(T1[task_id])
                      THEN IF dependent_on # None
                           THEN IF check_dependency_status(T1, T1[task_id])
                                THEN AVAILABLE ELSE WAIT
                           ELSE NOT_AVAILABLE
                      ELSE T1[task_id].status
        IN  /\ tasks' = [T1 EXCEPT ![task_id].status = status]
            /\ task_info' = TaskInfo(task_info, task_id, status)
            /\ resp' = Response("update_task_dependency", user, task_id, dependent_on, 200)
            /\ UNCHANGED <<sprints, next_task_id, next_sprint_id, now, ret, projects>>

\* a delete_task that forgets to unlink the tasks depending on the deleted one
delete_task_no_unlink(user, task_id) ==
    IF task_id \notin DOMAIN tasks THEN HTTPException("delete_task", 404)
    ELSE IF ~check_project_permission(user, tasks[task_id].project_id)
        THEN HTTPException("delete_task", 403)
    ELSE
        /\ tasks' = [t \in DOMAIN tasks \ {task_id} |-> tasks[t]]
        /\ task_info' = [t \in DOMAIN tasks \ {task_id} |-> task_info[t]]
        /\ resp' = Response("delete_task", user, task_id, None, 200)
        /\ UNCHANGED <<sprints, next_task_id, next_sprint_id, now, ret, projects>>

\* a delete_task whose cascade releases the dependents without a TaskInfo row
delete_task_no_record(user, task_id) ==
    IF task_id \notin DOMAIN tasks THEN HTTPException("delete_task", 404)
    ELSE IF ~check_project_permission(user, tasks[task_id].project_id)
        THEN HTTPException("delete_task", 403)
    ELSE
        /\ tasks' = [t \in DOMAIN tasks \ {task_id} |->
                        IF tasks[t].dependent_on # task_id THEN tasks[t]
                        ELSE IF in_active_sprint(tasks[t])
                        THEN [tasks[t] EXCEPT !.dependent_on = None, !.status = AVAILABLE]
                        ELSE [tasks[t] EXCEPT !.dependent_on = None]]
        /\ task_info' = [t \in DOMAIN tasks \ {task_id} |-> task_info[t]]
        /\ resp' = Response("delete_task", user, task_id, None, 200)
        /\ UNCHANGED <<sprints, next_task_id, next_sprint_id, now, ret, projects>>

delete_task(user, task_id) ==
    LET Reject(code) == HTTPException("delete_task", code) IN
    IF task_id \notin DOMAIN tasks THEN Reject(404)
    ELSE IF ~check_project_permission(user, tasks[task_id].project_id) THEN Reject(403)
    ELSE
        LET dependent_tasks == {t \in DOMAIN tasks : tasks[t].dependent_on = task_id}
            activated == {t \in dependent_tasks : in_active_sprint(tasks[t])}
            rest == DOMAIN tasks \ {task_id}
        IN  /\ tasks' = [t \in rest |->
                            IF t \in activated
                            THEN [tasks[t] EXCEPT !.dependent_on = None,
                                                  !.status = AVAILABLE]
                            ELSE IF t \in dependent_tasks
                            THEN [tasks[t] EXCEPT !.dependent_on = None]
                            ELSE tasks[t]]
            /\ task_info' = [t \in rest |->
                            IF t \in activated
                            THEN Append(task_info[t], AVAILABLE) ELSE task_info[t]]
            /\ resp' = Response("delete_task", user, task_id, None, 200)
            /\ UNCHANGED <<sprints, next_task_id, next_sprint_id, now, ret, projects>>

assign_task_to_user(user, task_id, user_id) ==
    LET Reject(code) == HTTPException("assign_task_to_user", code) IN
    IF task_id \notin DOMAIN tasks THEN Reject(404)
    ELSE IF ~check_project_permission(user, tasks[task_id].project_id) THEN Reject(403)
    ELSE IF user_id \notin Users THEN Reject(404)
    ELSE IF role(user_id) # User THEN Reject(400)
    ELSE IF <<user_id, tasks[task_id].project_id>> \notin UserProject THEN Reject(400)
    ELSE
        /\ tasks' = [tasks EXCEPT ![task_id].worker_id = user_id]
        /\ resp' = Response("assign_task_to_user", user, task_id, user_id, 200)
        /\ UNCHANGED <<task_info, sprints, next_task_id, next_sprint_id, now, ret, projects>>

\* -------------------------------------------------------- routers/sprints
\* a create_sprint that looks for an active sprint only, not for a draft
create_sprint_active_only(user, project_id, duration) ==
    IF ~check_project_permission(user, project_id) THEN HTTPException("create_sprint", 403)
    ELSE IF \E s \in DOMAIN sprints :
                sprints[s].project_id = project_id /\ sprints[s].is_active
        THEN HTTPException("create_sprint", 400)
    ELSE
        /\ sprints' = [s \in DOMAIN sprints \cup {next_sprint_id} |->
                        IF s = next_sprint_id THEN Sprint(duration, project_id)
                        ELSE sprints[s]]
        /\ next_sprint_id' = next_sprint_id + 1
        /\ resp' = Response("create_sprint", user, project_id, None, 201)
        /\ UNCHANGED <<tasks, task_info, next_task_id, now, ret, projects>>

create_sprint(user, project_id, duration) ==
    LET Reject(code) == HTTPException("create_sprint", code)
        existing_uncompleted_sprint ==
            {s \in DOMAIN sprints : /\ sprints[s].project_id = project_id
                                    /\ ~sprints[s].is_completed}
    IN
    IF ~check_project_permission(user, project_id) THEN Reject(403)
    ELSE IF existing_uncompleted_sprint # {} THEN Reject(400)
    ELSE
        /\ sprints' = [s \in DOMAIN sprints \cup {next_sprint_id} |->
                        IF s = next_sprint_id THEN Sprint(duration, project_id)
                        ELSE sprints[s]]
        /\ next_sprint_id' = next_sprint_id + 1
        /\ resp' = Response("create_sprint", user, project_id, None, 201)
        /\ UNCHANGED <<tasks, task_info, next_task_id, now, ret, projects>>

\* an add_task_to_sprint that accepts a completed sprint
add_task_to_sprint_completed_ok(user, sprint_id, task_id) ==
    LET Reject(code) == HTTPException("add_task_to_sprint", code) IN
    IF sprint_id \notin DOMAIN sprints THEN Reject(404)
    ELSE IF task_id \notin DOMAIN tasks THEN Reject(404)
    ELSE IF tasks[task_id].project_id # sprints[sprint_id].project_id THEN Reject(400)
    ELSE IF ~check_project_permission(user, sprints[sprint_id].project_id) THEN Reject(403)
    ELSE IF tasks[task_id].status = COMPLETE THEN Reject(400)
    ELSE
        /\ tasks' = [tasks EXCEPT ![task_id].sprint_id = sprint_id]
        /\ resp' = Response("add_task_to_sprint", user, sprint_id, task_id, 200)
        /\ UNCHANGED <<task_info, sprints, next_task_id, next_sprint_id, now, ret, projects>>

add_task_to_sprint(user, sprint_id, task_id) ==
    LET Reject(code) == HTTPException("add_task_to_sprint", code) IN
    IF sprint_id \notin DOMAIN sprints THEN Reject(404)
    ELSE IF task_id \notin DOMAIN tasks THEN Reject(404)
    ELSE IF tasks[task_id].project_id # sprints[sprint_id].project_id THEN Reject(400)
    ELSE IF ~check_project_permission(user, sprints[sprint_id].project_id) THEN Reject(403)
    ELSE IF sprints[sprint_id].is_completed THEN Reject(400)
    ELSE IF tasks[task_id].status = COMPLETE THEN Reject(400)
    ELSE
        /\ tasks' = [tasks EXCEPT ![task_id].sprint_id = sprint_id]
        /\ resp' = Response("add_task_to_sprint", user, sprint_id, task_id, 200)
        /\ UNCHANGED <<task_info, sprints, next_task_id, next_sprint_id, now, ret, projects>>

\* db.query(Task).filter(Task.sprint_id == sprint_id).all()
sprint_tasks(T, sprint_id) == {t \in DOMAIN T : T[t].sprint_id = sprint_id}

\* the validation loop of launch_sprint over the query result `order`, from
\* its i-th task on: one entry (here the task's id) for a task whose
\* prerequisite is missing, or neither in the sprint nor COMPLETE
RECURSIVE dependency_errors_loop(_, _, _, _)
dependency_errors_loop(T, sprint_id, order, i) ==
    IF i > Len(order) THEN <<>>
    ELSE
        LET task == T[order[i]]
            entry == IF task.dependent_on = None THEN <<>>
                     ELSE IF task.dependent_on \notin DOMAIN T THEN <<order[i]>>
                     ELSE IF /\ T[task.dependent_on].sprint_id # sprint_id
                             /\ T[task.dependent_on].status # COMPLETE
                         THEN <<order[i]>>
                     ELSE <<>>
        IN  entry \o dependency_errors_loop(T, sprint_id, order, i + 1)

\* a validation that reports the first offending task only
dependency_errors_first_only(T, sprint_id, order) ==
    LET errors == dependency_errors_loop(T, sprint_id, order, 1)
    IN  IF errors = <<>> THEN <<>> ELSE <<errors[1]>>

dependency_errors(T, sprint_id, order) ==
    dependency_errors_loop(T, sprint_id, order, 1)

\* a mapping that makes every sprint one week long
duration_mapping_one_week(duration) ==
    1

duration_mapping(duration) ==
    CASE duration = ONE_WEEK -> 1
      [] duration = TWO_WEEKS -> 2
      [] duration = THREE_WEEKS -> 3
      [] duration = FOUR_WEEKS -> 4

\* a status loop that makes every task with a dependency wait
RECURSIVE launch_loop_all_wait(_, _, _)
launch_loop_all_wait(ST, order, i) ==
    IF i > Len(order) THEN ST
    ELSE
        LET T == ST[1]
            t == order[i]
            status == IF T[t].dependent_on # None THEN WAIT
                      ELSE IF T[t].status \in {TESTING, FEEDBACK} THEN T[t].status
                      ELSE AVAILABLE
            info == IF status \notin {TESTING, FEEDBACK}
                    THEN TaskInfo(ST[2], t, status) ELSE ST[2]
        IN  launch_loop_all_wait(<<[T EXCEPT ![t].status = status], info>>, order, i + 1)

\* a status loop that records nothing
RECURSIVE launch_loop_no_record(_, _, _)
launch_loop_no_record(ST, order, i) ==
    IF i > Len(order) THEN ST
    ELSE
        LET T == ST[1]
            t == order[i]
            status == IF T[t].dependent_on # None
                      THEN IF check_dependency_status(T, T[t]) THEN AVAILABLE ELSE WAIT
                      ELSE IF T[t].status \in {TESTING, FEEDBACK} THEN T[t].status
                      ELSE AVAILABLE
        IN  launch_loop_no_record(<<[T EXCEPT ![t].status = status], ST[2]>>, order, i + 1)

\* the status loop of launch_sprint over the query result `order`, from its
\* i-th task on; ST = <<task table, TaskInfo table>> so far
RECURSIVE launch_loop(_, _, _)
launch_loop(ST, order, i) ==
    IF i > Len(order) THEN ST
    ELSE
        LET T == ST[1]
            t == order[i]
            status == IF T[t].dependent_on # None
                      THEN IF check_dependency_status(T, T[t]) THEN AVAILABLE ELSE WAIT
                      ELSE IF T[t].status \in {TESTING, FEEDBACK} THEN T[t].status
                      ELSE AVAILABLE
            info == IF status \notin {TESTING, FEEDBACK}
                    THEN TaskInfo(ST[2], t, status) ELSE ST[2]
        IN  launch_loop(<<[T EXCEPT ![t].status = status], info>>, order, i + 1)

\* a launch_sprint that does not look for unassigned tasks
launch_sprint_unassigned_ok(user, sprint_id, order) ==
    LET Reject(code) == HTTPException("launch_sprint", code)
        task_ids == sprint_tasks(tasks, sprint_id)
    IN
    /\ Len(order) = Cardinality(task_ids)
    /\ {order[i] : i \in 1..Len(order)} = task_ids
    /\ IF sprint_id \notin DOMAIN sprints THEN Reject(404)
       ELSE IF ~check_project_permission(user, sprints[sprint_id].project_id) THEN Reject(403)
       ELSE IF sprints[sprint_id].is_active \/ sprints[sprint_id].is_completed THEN Reject(400)
       ELSE IF Cardinality(task_ids) < MinSprintTasks THEN Reject(400)
       ELSE IF dependency_errors(tasks, sprint_id, order) # <<>>
           THEN /\ resp' = [Response("launch_sprint", user, sprint_id, None, 400)
                               EXCEPT !.detail = dependency_errors(tasks, sprint_id, order)]
                /\ UNCHANGED <<tasks, task_info, sprints, next_task_id, next_sprint_id, now, ret, projects>>
       ELSE
           LET ST == launch_loop(<<tasks, task_info>>, order, 1) IN
           /\ tasks' = ST[1]
           /\ task_info' = ST[2]
           /\ sprints' = [sprints EXCEPT
                   ![sprint_id].start_date = now,
                   ![sprint_id].end_date = now + duration_mapping(sprints[sprint_id].duration),
                   ![sprint_id].is_active = TRUE]
           /\ resp' = Response("launch_sprint", user, sprint_id, None, 200)
           /\ UNCHANGED <<next_task_id, next_sprint_id, now, ret, projects>>

\* `order` is the order in which the query returns the sprint's tasks
launch_sprint(user, sprint_id, order) ==
    LET Reject(code) == HTTPException("launch_sprint", code)
        task_ids == sprint_tasks(tasks, sprint_id)
    IN
    /\ Len(order) = Cardinality(task_ids)
    /\ {order[i] : i \in 1..Len(order)} = task_ids
    /\ IF sprint_id \notin DOMAIN sprints THEN Reject(404)
       ELSE IF ~check_project_permission(user, sprints[sprint_id].project_id) THEN Reject(403)
       ELSE IF sprints[sprint_id].is_active \/ sprints[sprint_id].is_completed THEN Reject(400)
       ELSE IF Cardinality(task_ids) < MinSprintTasks THEN Reject(400)
       ELSE IF \E t \in task_ids : tasks[t].worker_id = None THEN Reject(400)
       ELSE IF dependency_errors(tasks, sprint_id, order) # <<>>
           THEN /\ resp' = [Response("launch_sprint", user, sprint_id, None, 400)
                               EXCEPT !.detail = dependency_errors(tasks, sprint_id, order)]
                /\ UNCHANGED <<tasks, task_info, sprints, next_task_id, next_sprint_id, now, ret, projects>>
       ELSE
           LET ST == launch_loop(<<tasks, task_info>>, order, 1) IN
           /\ tasks' = ST[1]
           /\ task_info' = ST[2]
           /\ sprints' = [sprints EXCEPT
                   ![sprint_id].start_date = now,
                   ![sprint_id].end_date = now + duration_mapping(sprints[sprint_id].duration),
                   ![sprint_id].is_active = TRUE]
           /\ resp' = Response("launch_sprint", user, sprint_id, None, 200)
           /\ UNCHANGED <<next_task_id, next_sprint_id, now, ret, projects>>

\* a remove_task_from_sprint that accepts an active sprint
remove_task_from_sprint_active_ok(user, task_id) ==
    LET Reject(code) == HTTPException("remove_task_from_sprint", code) IN
    IF task_id \notin DOMAIN tasks THEN Reject(404)
    ELSE IF tasks[task_id].sprint_id = None THEN Reject(400)
    ELSE IF tasks[task_id].sprint_id \notin DOMAIN sprints THEN Reject(404)
    ELSE IF sprints[tasks[task_id].sprint_id].is_completed THEN Reject(400)
    ELSE IF ~check_project_permission(user, tasks[task_id].project_id) THEN Reject(403)
    ELSE
        /\ tasks' = [tasks EXCEPT ![task_id].sprint_id = None]
        /\ resp' = Response("remove_task_from_sprint", user, task_id, None, 200)
        /\ UNCHANGED <<task_info, sprints, next_task_id, next_sprint_id, now, ret, projects>>

remove_task_from_sprint(user, task_id) ==
    LET Reject(code) == HTTPException("remove_task_from_sprint", code) IN
    IF task_id \notin DOMAIN tasks THEN Reject(404)
    ELSE IF tasks[task_id].sprint_id = None THEN Reject(400)
    ELSE IF tasks[task_id].sprint_id \notin DOMAIN sprints THEN Reject(404)
    ELSE IF \/ sprints[tasks[task_id].sprint_id].is_active
            \/ sprints[tasks[task_id].sprint_id].is_completed THEN Reject(400)
    ELSE IF ~check_project_permission(user, tasks[task_id].project_id) THEN Reject(403)
    ELSE
        /\ tasks' = [tasks EXCEPT ![task_id].sprint_id = None]
        /\ resp' = Response("remove_task_from_sprint", user, task_id, None, 200)
        /\ UNCHANGED <<task_info, sprints, next_task_id, next_sprint_id, now, ret, projects>>

\* a delete_sprint that leaves the tasks' sprint references in place
delete_sprint_keeps_tasks(user, sprint_id) ==
    LET Reject(code) == HTTPException("delete_sprint", code) IN
    IF sprint_id \notin DOMAIN sprints THEN Reject(404)
    ELSE IF ~check_project_permission(user, sprints[sprint_id].project_id) THEN Reject(403)
    ELSE IF sprints[sprint_id].is_active \/ sprints[sprint_id].is_completed THEN Reject(400)
    ELSE
        /\ sprints' = [s \in DOMAIN sprints \ {sprint_id} |-> sprints[s]]
        /\ resp' = Response("delete_sprint", user, sprint_id, None, 200)
        /\ UNCHANGED <<tasks, task_info, next_task_id, next_sprint_id, now, ret, projects>>

delete_sprint(user, sprint_id) ==
    LET Reject(code) == HTTPException("delete_sprint", code) IN
    IF sprint_id \notin DOMAIN sprints THEN Reject(404)
    ELSE IF ~check_project_permission(user, sprints[sprint_id].project_id) THEN Reject(403)
    ELSE IF sprints[sprint_id].is_active \/ sprints[sprint_id].is_completed THEN Reject(400)
    ELSE
        /\ tasks' = [t \in DOMAIN tasks |->
                        IF tasks[t].sprint_id = sprint_id
                        THEN [tasks[t] EXCEPT !.sprint_id = None] ELSE tasks[t]]
        /\ sprints' = [s \in DOMAIN sprints \ {sprint_id} |-> sprints[s]]
        /\ resp' = Response("delete_sprint", user, sprint_id, None, 200)
        /\ UNCHANGED <<task_info, next_task_id, next_sprint_id, now, ret, projects>>

\* the sprints one cycle of the expiration monitor selects
\* a selection that misses the sprints whose end_date is exactly now
expired_sprints_strict ==
    {s \in DOMAIN sprints : sprints[s].is_active /\ sprints[s].end_date < now}

expired_sprints ==
    {s \in DOMAIN sprints : sprints[s].is_active /\ sprints[s].end_date <= now}

\* a monitor that marks the sprint completed and forgets to deactivate it
check_sprint_expiration_keeps_active ==
    /\ expired_sprints # {}
    /\ sprints' = [s \in DOMAIN sprints |->
                    IF s \in expired_sprints
                    THEN [sprints[s] EXCEPT !.is_completed = TRUE] ELSE sprints[s]]
    /\ tasks' = [t \in DOMAIN tasks |->
                    IF tasks[t].sprint_id \in expired_sprints /\ tasks[t].status # COMPLETE
                    THEN [tasks[t] EXCEPT !.sprint_id = None] ELSE tasks[t]]
    /\ resp' = Response("check_sprint_expiration", None, None, None, 0)
    /\ UNCHANGED <<task_info, next_task_id, next_sprint_id, now, ret, projects>>

\* a monitor that takes every task out of the sprint, the COMPLETE ones too
check_sprint_expiration_clears_all ==
    /\ expired_sprints # {}
    /\ sprints' = [s \in DOMAIN sprints |->
                    IF s \in expired_sprints
                    THEN [sprints[s] EXCEPT !.is_active = FALSE, !.is_completed = TRUE]
                    ELSE sprints[s]]
    /\ tasks' = [t \in DOMAIN tasks |->
                    IF tasks[t].sprint_id \in expired_sprints
                    THEN [tasks[t] EXCEPT !.sprint_id = None] ELSE tasks[t]]
    /\ resp' = Response("check_sprint_expiration", None, None, None, 0)
    /\ UNCHANGED <<task_info, next_task_id, next_sprint_id, now, ret, projects>>

\* one cycle of the monitor's loop: every selected sprint is completed and its
\* tasks that are not COMPLETE leave it
check_sprint_expiration ==
    /\ expired_sprints # {}
    /\ sprints' = [s \in DOMAIN sprints |->
                    IF s \in expired_sprints
                    THEN [sprints[s] EXCEPT !.is_active = FALSE, !.is_completed = TRUE]
                    ELSE sprints[s]]
    /\ tasks' = [t \in DOMAIN tasks |->
                    IF tasks[t].sprint_id \in expired_sprints /\ tasks[t].status # COMPLETE
                    THEN [tasks[t] EXCEPT !.sprint_id = None] ELSE tasks[t]]
    /\ resp' = Response("check_sprint_expiration", None, None, None, 0)
    /\ UNCHANGED <<task_info, next_task_id, next_sprint_id, now, ret, projects>>

\* datetime.now() advances by one week
Tick ==
    /\ now' = now + 1
    /\ resp' = Response("tick", None, None, None, 0)
    /\ UNCHANGED <<tasks, task_info, sprints, next_task_id, next_sprint_id, ret, projects>>

\* ------------------------------------------------------- routers/projects
\* a complete_project that does not look at the tasks
complete_project_unchecked(user, project_id) ==
    LET Reject(code) == HTTPException("complete_project", code) IN
    IF project_id \notin Projects THEN Reject(404)
    ELSE IF ~check_project_permission(user, project_id) THEN Reject(403)
    ELSE IF projects[project_id].complete THEN Reject(400)
    ELSE
        /\ projects' = [projects EXCEPT ![project_id].complete = TRUE,
                                        ![project_id].end_date = now]
        /\ resp' = Response("complete_project", user, project_id, None, 200)
        /\ UNCHANGED <<tasks, task_info, sprints, next_task_id, next_sprint_id, now, ret>>

complete_project(user, project_id) ==
    LET Reject(code) == HTTPException("complete_project", code)
        incomplete_tasks == {t \in DOMAIN tasks :
                                tasks[t].project_id = project_id /\ tasks[t].status # COMPLETE}
    IN
    IF project_id \notin Projects THEN Reject(404)
    ELSE IF ~check_project_permission(user, project_id) THEN Reject(403)
    ELSE IF projects[project_id].complete THEN Reject(400)
    ELSE IF incomplete_tasks # {} THEN Reject(400)
    ELSE
        /\ projects' = [projects EXCEPT ![project_id].complete = TRUE,
                                        ![project_id].end_date = now]
        /\ resp' = Response("complete_project", user, project_id, None, 200)
        /\ UNCHANGED <<tasks, task_info, sprints, next_task_id, next_sprint_id, now, ret>>

\* ------------------------------------------------------- specifications
\* the store after construction: no task, no sprint
Init ==
    /\ tasks = <<>>
    /\ task_info = <<>>
    /\ sprints = <<>>
    /\ next_task_id = 1
    /\ next_sprint_id = 1
    /\ now = 1
    /\ resp = Response("init", None, None, None, 0)
    /\ projects = [p \in Projects |-> Project]
    /\ ret = [fn |-> "none", arg |-> None, val |-> FALSE]

\* the number of TaskInfo rows of the tasks ids
RECURSIVE Rows(_, _)
Rows(info, ids) ==
    IF ids = {} THEN 0
    ELSE LET t == CHOOSE x \in ids : TRUE
         IN  Len(info[t]) + Rows(info, ids \ {t})

\* the step leaves at most MaxRows rows in the TaskInfo table
RowCap == Rows(task_info', DOMAIN task_info') <= MaxRows

\* Dependency editing: tasks of two projects are created, re-linked and
\* deleted by the owner.  A request names no prerequisite (type None) or an
\* FS prerequisite among the task ids, existing or not.
DepRequests == {<<None, DT_NONE>>} \cup {<<d, FS>> : d \in 1..MaxTaskId}

DepCreate ==
    \E project_id \in Projects, r \in DepRequests :
        /\ create_task(1, project_id, None, r[1], r[2])
        /\ next_task_id' <= MaxTaskId + 1

DepUpdate ==
    \E task_id \in 1..MaxTaskId, r \in DepRequests :
        /\ update_task_dependency(1, task_id, r[1], r[2])
        /\ Rows(task_info', DOMAIN task_info') <= Cardinality(DOMAIN tasks) + MaxUpdates

DepDelete ==
    \E task_id \in 1..MaxTaskId : delete_task(1, task_id)

NextDep == DepCreate \/ DepUpdate \/ DepDelete

SpecDep == Init /\ [][NextDep]_vars

\* Sprint lifecycle: the owner has created MinSprintTasks tasks in project 1,
\* each assigned to worker 2; sprints of both projects are then created,
\* filled, launched, deleted and expired while the clock advances.
InitSprint ==
    /\ tasks = [t \in 1..MinSprintTasks |-> Task(NOT_AVAILABLE, 1, 2, None, DT_NONE)]
    /\ task_info = [t \in 1..MinSprintTasks |-> <<NOT_AVAILABLE>>]
    /\ sprints = <<>>
    /\ next_task_id = MinSprintTasks + 1
    /\ next_sprint_id = 1
    /\ now = 1
    /\ resp = Response("init", None, None, None, 0)
    /\ projects = [p \in Projects |-> Project]
    /\ ret = [fn |-> "none", arg |-> None, val |-> FALSE]

\* the two orders in which a query without ORDER BY is taken to return a set
\* of rows: ascending and descending identity
RECURSIVE Ascending(_)
Ascending(ids) ==
    IF ids = {} THEN <<>>
    ELSE LET m == CHOOSE x \in ids : \A y \in ids : x <= y
         IN  <<m>> \o Ascending(ids \ {m})

RECURSIVE Descending(_)
Descending(ids) ==
    IF ids = {} THEN <<>>
    ELSE LET m == CHOOSE x \in ids : \A y \in ids : x >= y
         IN  <<m>> \o Descending(ids \ {m})

QueryOrders(ids) == {Ascending(ids), Descending(ids)}

SprintCreate ==
    \E project_id \in Projects, duration \in SprintDuration :
        /\ create_sprint(1, project_id, duration)
        /\ next_sprint_id' <= MaxSprintId + 1

SprintAdd ==
    \E sprint_id \in 1..MaxSprintId, task_id \in DOMAIN tasks :
        add_task_to_sprint(1, sprint_id, task_id)

SprintRemove ==
    \E task_id \in DOMAIN tasks : remove_task_from_sprint(1, task_id)

SprintLaunch ==
    \E sprint_id \in 1..MaxSprintId :
        \E order \in QueryOrders(sprint_tasks(tasks, sprint_id)) :
            /\ launch_sprint(1, sprint_id, order)
            /\ RowCap

SprintDelete ==
    \E sprint_id \in 1..MaxSprintId : delete_sprint(1, sprint_id)

Monitor == check_sprint_expiration

Clock == Tick /\ now' <= MaxTime

NextSprint ==
    \/ SprintCreate \/ SprintAdd \/ SprintRemove \/ SprintLaunch \/ SprintDelete
    \/ Monitor \/ Clock

SpecSprint == InitSprint /\ [][NextSprint]_vars

\* Task lifecycle: a draft sprint of project 1 holds MinSprintTasks tasks.
\* Task 1 has no prerequisite, task 2 depends on task 1 (FS or SS), task 3
\* depends on task 2 (FS); tasks 1 and 2 are assigned to worker 2, the others
\* to worker 4.  The owner launches the sprint, worker 2 and tester 3 drive
\* the transitions, the clock advances and the monitor expires the sprint.
InitLife ==
    \E kind \in {FS, SS} :
        /\ tasks = [t \in 1..MinSprintTasks |->
                [Task(NOT_AVAILABLE, 1,
                      IF t <= 2 THEN 2 ELSE 4,
                      IF t \in {2, 3} THEN t - 1 ELSE None,
                      IF t = 2 THEN kind ELSE IF t = 3 THEN FS ELSE DT_NONE)
                 EXCEPT !.sprint_id = 1]]
        /\ task_info = [t \in 1..MinSprintTasks |-> <<NOT_AVAILABLE>>]
        /\ sprints = <<Sprint(ONE_WEEK, 1)>>
        /\ next_task_id = MinSprintTasks + 1
        /\ next_sprint_id = 2
        /\ now = 1
        /\ resp = Response("init", None, None, None, 0)
        /\ projects = [p \in Projects |-> Project]
        /\ ret = [fn |-> "none", arg |-> None, val |-> FALSE]

LifeLaunch ==
    \E order \in QueryOrders(sprint_tasks(tasks, 1)) :
        launch_sprint(1, 1, order) /\ RowCap

LifeStart ==
    \E user \in {2, 3}, task_id \in 1..3 : start_task(user, task_id) /\ RowCap

LifeTesting ==
    \E user \in {2, 3}, task_id \in 1..3 : mark_task_as_testing(user, task_id) /\ RowCap

LifeFeedback ==
    \E user \in {2, 3}, task_id \in 1..3 : mark_task_as_feedback(user, task_id) /\ RowCap

LifeComplete ==
    \E user \in {2, 3}, task_id \in 1..3 : mark_task_as_complete(user, task_id) /\ RowCap

NextLife ==
    \/ LifeLaunch \/ LifeStart \/ LifeTesting \/ LifeFeedback \/ LifeComplete
    \/ Monitor \/ Clock

SpecLife == InitLife /\ [][NextLife]_vars

\* Task lifecycle with edits: as above without the clock, and the owner also
\* re-links tasks 1 and 2 and deletes them.
EditUpdate ==
    \E task_id \in 1..2, r \in {<<None, DT_NONE>>, <<1, FS>>, <<1, SS>>} :
        update_task_dependency(1, task_id, r[1], r[2]) /\ RowCap

EditDelete ==
    \E task_id \in 1..2 : delete_task(1, task_id) /\ RowCap

NextEdit ==
    \/ LifeLaunch \/ LifeStart \/ LifeTesting \/ LifeFeedback \/ LifeComplete
    \/ EditUpdate \/ EditDelete

SpecEdit == InitLife /\ [][NextEdit]_vars

\* Deletion cascade: the lifecycle above, where the owner also makes task 2 or
\* task 3 depend on task 1 and deletes task 1, so that the deleted task has
\* no, one or two dependents, in a draft or in an active sprint.
CascadeUpdate ==
    \E task_id \in 2..3, kind \in {FS, SS} :
        update_task_dependency(1, task_id, 1, kind) /\ RowCap

CascadeDelete == delete_task(1, 1)

NextCascade ==
    \/ LifeLaunch \/ LifeStart \/ LifeTesting \/ LifeFeedback \/ LifeComplete
    \/ CascadeUpdate \/ CascadeDelete

SpecCascade == InitLife /\ [][NextCascade]_vars

\* Launch validation.  Sprint 1 of project 1 ran with tasks 1, 2, 3, 5 and 6
\* and has expired; task 6 was completed in it or not (status s6), the other
\* four were released by the expiration.  Task 4 was never in a sprint and
\* has worker w4 or none.  Sprint 2 is a draft holding tasks 1..5; tasks 2
\* and 3 were made to depend (FS) on d2 and d3: nothing, task 1 (in the
\* sprint), task 6 (outside it) or task 7, which no longer exists (a
\* prerequisite deleted while the link to it was being written).  The owner
\* then moves tasks 4..6 in and out of the draft, assigns task 4 and tries
\* to launch either sprint.
Outsider == MinSprintTasks + 1

Deleted == MinSprintTasks + 2

InitLaunch ==
    \E d2, d3 \in {None, 1, Outsider, Deleted}, s6 \in {AVAILABLE, COMPLETE}, w4 \in {None, 4} :
        LET dep(t) == IF t = 2 THEN d2 ELSE IF t = 3 THEN d3 ELSE None
            ran(t) == t # 4
        IN
        /\ tasks = [t \in 1..Outsider |->
                [Task(IF t = Outsider THEN s6 ELSE IF ran(t) THEN AVAILABLE ELSE NOT_AVAILABLE,
                      1,
                      IF t = 4 THEN w4 ELSE 2,
                      dep(t),
                      IF dep(t) = None THEN DT_NONE ELSE FS)
                 EXCEPT !.sprint_id = IF t = Outsider
                                      THEN IF s6 = COMPLETE THEN 1 ELSE None
                                      ELSE 2]]
        /\ task_info = [t \in 1..Outsider |->
                IF t = Outsider /\ s6 = COMPLETE
                THEN <<NOT_AVAILABLE, AVAILABLE, IN_PROGRESS, TESTING, COMPLETE>>
                ELSE IF ~ran(t) THEN <<NOT_AVAILABLE>>
                ELSE IF dep(t) # None THEN <<NOT_AVAILABLE, AVAILABLE, AVAILABLE>>
                ELSE <<NOT_AVAILABLE, AVAILABLE>>]
        /\ sprints = <<[Sprint(ONE_WEEK, 1) EXCEPT !.start_date = 1, !.end_date = 2,
                                                   !.is_completed = TRUE],
                       Sprint(ONE_WEEK, 1)>>
        /\ next_task_id = Deleted + 1
        /\ next_sprint_id = 3
        /\ now = 2
        /\ resp = Response("init", None, None, None, 0)
        /\ projects = [p \in Projects |-> Project]
        /\ ret = [fn |-> "none", arg |-> None, val |-> FALSE]

LaunchAdd ==
    \E task_id \in 4..Outsider : add_task_to_sprint(1, 2, task_id)

LaunchRemove ==
    \E task_id \in 4..Outsider : remove_task_from_sprint(1, task_id)

LaunchAssign == assign_task_to_user(1, 4, 4)

LaunchTry ==
    \E sprint_id \in 1..2 :
        \E order \in QueryOrders(sprint_tasks(tasks, sprint_id)) :
            launch_sprint(1, sprint_id, order)

NextLaunch == LaunchAdd \/ LaunchRemove \/ LaunchAssign \/ LaunchTry

SpecLaunch == InitLaunch /\ [][NextLaunch]_vars

\* Relaunch.  Sprint 1 of project 1 ran with tasks 1..5, none of them linked,
\* and has expired with none of them complete: tasks 1..3 were left by
\* worker 2 and the tester in any of AVAILABLE, IN_PROGRESS, TESTING or
\* FEEDBACK, tasks 4 and 5 in AVAILABLE.  The owner then made task 2 depend
\* on d2 and task 3 on d3 (update_task_dependency outside an active sprint
\* keeps the status and adds a row) and put the five tasks in draft sprint 2,
\* which is now launched.
history(status) ==
    CASE status = AVAILABLE -> <<NOT_AVAILABLE, AVAILABLE>>
      [] status = IN_PROGRESS -> <<NOT_AVAILABLE, AVAILABLE, IN_PROGRESS>>
      [] status = TESTING -> <<NOT_AVAILABLE, AVAILABLE, IN_PROGRESS, TESTING>>
      [] status = FEEDBACK -> <<NOT_AVAILABLE, AVAILABLE, IN_PROGRESS, TESTING, FEEDBACK>>
      [] status = COMPLETE -> <<NOT_AVAILABLE, AVAILABLE, IN_PROGRESS, TESTING, COMPLETE>>
      [] OTHER -> <<status>>

InitRelaunch ==
    \E st \in [1..3 -> {AVAILABLE, IN_PROGRESS, TESTING, FEEDBACK}],
       kind \in {FS, SS}, d2 \in {None, 1, 3}, d3 \in {None, 1} :
        LET dep(t) == IF t = 2 THEN d2 ELSE IF t = 3 THEN d3 ELSE None
            status(t) == IF t <= 3 THEN st[t] ELSE AVAILABLE
        IN
        /\ tasks = [t \in 1..MinSprintTasks |->
                [Task(status(t), 1, 2, dep(t), IF dep(t) = None THEN DT_NONE ELSE kind)
                 EXCEPT !.sprint_id = 2]]
        /\ task_info = [t \in 1..MinSprintTasks |->
                IF dep(t) = None THEN history(status(t))
                ELSE Append(history(status(t)), status(t))]
        /\ sprints = <<[Sprint(ONE_WEEK, 1) EXCEPT !.start_date = 1, !.end_date = 2,
                                                   !.is_completed = TRUE],
                       Sprint(ONE_WEEK, 1)>>
        /\ next_task_id = MinSprintTasks + 1
        /\ next_sprint_id = 3
        /\ now = 2
        /\ resp = Response("init", None, None, None, 0)
        /\ projects = [p \in Projects |-> Project]
        /\ ret = [fn |-> "none", arg |-> None, val |-> FALSE]

RelaunchTry ==
    \E order \in QueryOrders(sprint_tasks(tasks, 2)) : launch_sprint(1, 2, order)

NextRelaunch == RelaunchTry

SpecRelaunch == InitRelaunch /\ [][NextRelaunch]_vars

\* Expiry.  Project 1 has draft sprint 1 with tasks 1..5 (task 2 an FS
\* dependent of task 1); project 2 has sprint 2, launched at time 1 for one or
\* two weeks with tasks 6..10 of worker 4, of which task 6 may already be
\* COMPLETE.  Sprint 1 is launched, its tasks 1..3 are taken through their
\* lifecycle by worker 2 and the tester, the clock advances and the monitor
\* runs.
FirstOther == MinSprintTasks + 1
LastOther == MinSprintTasks + MinSprintTasks

ExpireTables(duration, s6) ==
    /\ tasks = [t \in 1..LastOther |->
            IF t <= MinSprintTasks
            THEN [Task(NOT_AVAILABLE, 1, 2,
                       IF t = 2 THEN 1 ELSE None,
                       IF t = 2 THEN FS ELSE DT_NONE)
                  EXCEPT !.sprint_id = 1]
            ELSE [Task(IF t = FirstOther THEN s6 ELSE AVAILABLE, 2, 4, None, DT_NONE)
                  EXCEPT !.sprint_id = 2]]
    /\ task_info = [t \in 1..LastOther |->
            IF t <= MinSprintTasks THEN <<NOT_AVAILABLE>>
            ELSE IF t = FirstOther /\ s6 = COMPLETE
            THEN <<NOT_AVAILABLE, AVAILABLE, IN_PROGRESS, TESTING, COMPLETE>>
            ELSE <<NOT_AVAILABLE, AVAILABLE>>]
    /\ sprints = <<Sprint(ONE_WEEK, 1),
                   [Sprint(duration, 2) EXCEPT
                        !.start_date = 1,
                        !.end_date = 1 + duration_mapping(duration),
                        !.is_active = TRUE]>>
    /\ next_task_id = LastOther + 1
    /\ next_sprint_id = 3
    /\ now = 1
    /\ resp = Response("init", None, None, None, 0)
    /\ projects = [p \in Projects |-> Project]

InitExpire ==
    \E duration \in {ONE_WEEK, TWO_WEEKS}, s6 \in {AVAILABLE, COMPLETE} :
        /\ ExpireTables(duration, s6)
        /\ ret = [fn |-> "none", arg |-> None, val |-> FALSE]

\* the step leaves no task with more than MaxTaskId + 2 rows
HistoryCap == \A t \in DOMAIN task_info' : Len(task_info'[t]) <= MaxTaskId + 2

ExpireLaunch ==
    \E order \in QueryOrders(sprint_tasks(tasks, 1)) : launch_sprint(1, 1, order)

ExpireStart ==
    \E user \in {2, 3}, task_id \in 1..3 : start_task(user, task_id) /\ HistoryCap

ExpireTesting ==
    \E task_id \in 1..3 : mark_task_as_testing(2, task_id) /\ HistoryCap

ExpireFeedback ==
    \E task_id \in 1..3 : mark_task_as_feedback(3, task_id) /\ HistoryCap

ExpireComplete ==
    \E user \in {2, 3}, task_id \in 1..3 : mark_task_as_complete(user, task_id) /\ HistoryCap

NextExpire ==
    \/ ExpireLaunch \/ ExpireStart \/ ExpireTesting \/ ExpireFeedback \/ ExpireComplete
    \/ Monitor \/ Clock

SpecExpire == InitExpire /\ [][NextExpire]_vars

\* the monitor's task is created at startup and wakes after every sleep: a
\* cycle that has sprints to expire is eventually run
FairExpire == SpecExpire /\ WF_vars(Monitor)

\* The monitor's cycle step by step, with the store failing.  `ret` holds the
\* coroutine's locals: where it stands (asleep, or in the for loop), the
\* sprints the query returned that are still to be processed, the sprints the
\* query returned, and the sprint whose processing raised.
cycle(pc, queue, selected, failed) ==
    [fn |-> "check_sprint_expiration", arg |-> None,
     val |-> [pc |-> pc, queue |-> queue, selected |-> selected, failed |-> failed]]

InitCycle ==
    \E duration \in {ONE_WEEK, TWO_WEEKS}, s6 \in {AVAILABLE, COMPLETE} :
        /\ ExpireTables(duration, s6)
        /\ ret = cycle("sleep", <<>>, {}, None)

\* the sleep ends and the query of the expired sprints returns
CycleQuery ==
    /\ ret.val.pc = "sleep"
    /\ expired_sprints # {}
    /\ \E order \in QueryOrders(expired_sprints) :
        ret' = cycle("for", order, expired_sprints, None)
    /\ resp' = Response("check_sprint_expiration", None, None, None, 0)
    /\ UNCHANGED <<tasks, task_info, sprints, next_task_id, next_sprint_id, now, projects>>

\* one iteration of the for loop: the sprint's flags, its incomplete tasks,
\* the commit
CycleExpire ==
    /\ ret.val.pc = "for"
    /\ LET sprint == Head(ret.val.queue)
           incomplete_tasks == {t \in DOMAIN tasks :
                                    tasks[t].sprint_id = sprint /\ tasks[t].status # COMPLETE}
           rest == Tail(ret.val.queue)
       IN  /\ sprints' = [sprints EXCEPT ![sprint].is_active = FALSE,
                                         ![sprint].is_completed = TRUE]
           /\ tasks' = [t \in DOMAIN tasks |->
                            IF t \in incomplete_tasks
                            THEN [tasks[t] EXCEPT !.sprint_id = None] ELSE tasks[t]]
           /\ ret' = cycle(IF rest = <<>> THEN "sleep" ELSE "for", rest,
                           ret.val.selected, None)
    /\ resp' = Response("check_sprint_expiration", None, None, None, 0)
    /\ UNCHANGED <<task_info, next_task_id, next_sprint_id, now, projects>>

\* an iteration raises (the task query or the commit fails): nothing of it
\* is committed, control leaves the for loop for the except clause and the
\* sleep
CycleFail ==
    /\ ret.val.pc = "for"
    /\ ret' = cycle("sleep", <<>>, ret.val.selected, Head(ret.val.queue))
    /\ resp' = Response("check_sprint_expiration", None, None, None, 500)
    /\ UNCHANGED <<tasks, task_info, sprints, next_task_id, next_sprint_id, now, projects>>

NextCycle ==
    \/ ExpireLaunch \/ ExpireStart \/ ExpireTesting \/ ExpireFeedback \/ ExpireComplete
    \/ CycleQuery \/ CycleExpire \/ CycleFail \/ Clock

SpecCycle == InitCycle /\ [][NextCycle]_vars

\* Race.  One expiration of sprint 1 by the monitor and one request run
\* against the same store, each as a read step (its queries and its checks)
\* followed by a commit step (its writes).  `ret` holds the store at the
\* start, the request, and what each of the two has read.
expired_read(T, S, clock) ==
    LET selected == {s \in DOMAIN S : S[s].is_active /\ S[s].end_date <= clock}
    IN  [expired_sprints |-> selected,
         incomplete_tasks |-> {t \in DOMAIN T :
                                  T[t].sprint_id \in selected /\ T[t].status # COMPLETE}]

expired_commit(T, S, read) ==
    <<[t \in DOMAIN T |->
            IF t \in read.incomplete_tasks THEN [T[t] EXCEPT !.sprint_id = None] ELSE T[t]],
      [s \in DOMAIN S |->
            IF s \in read.expired_sprints
            THEN [S[s] EXCEPT !.is_active = FALSE, !.is_completed = TRUE] ELSE S[s]]>>

Request(op, user, sprint_id, task_id) ==
    [op |-> op, user |-> user, sprint_id |-> sprint_id, task_id |-> task_id]

\* the answer the handler's checks give on the rows it has read
request_read(T, S, request) ==
    LET task_id == request.task_id
        sprint_id == request.sprint_id
    IN
    IF request.op = "mark_task_as_complete"
    THEN IF role(request.user) # Tester THEN 403
         ELSE IF task_id \notin DOMAIN T THEN 404
         ELSE IF T[task_id].status # TESTING THEN 400
         ELSE IF T[task_id].sprint_id = None THEN 400
         ELSE IF \/ T[task_id].sprint_id \notin DOMAIN S
                 \/ ~S[T[task_id].sprint_id].is_active THEN 400
         ELSE 200
    ELSE IF sprint_id \notin DOMAIN S THEN 404
         ELSE IF task_id \notin DOMAIN T THEN 404
         ELSE IF T[task_id].project_id # S[sprint_id].project_id THEN 400
         ELSE IF ~check_project_permission(request.user, S[sprint_id].project_id) THEN 403
         ELSE IF S[sprint_id].is_completed THEN 400
         ELSE IF T[task_id].status = COMPLETE THEN 400
         ELSE 200

\* the handler's writes, made when its checks passed
request_commit(T, I, request, code) ==
    LET task_id == request.task_id IN
    IF code # 200 THEN <<T, I>>
    ELSE IF request.op = "mark_task_as_complete"
    THEN LET T1 == [T EXCEPT ![task_id].status = COMPLETE]
             I1 == TaskInfo(I, task_id, COMPLETE)
             T2 == check_dependent_tasks(T1, task_id)
         IN  <<T2, propagation_info(I1, T1, T2)>>
    ELSE <<[T EXCEPT ![task_id].sprint_id = request.sprint_id], I>>

race(start, request, monitor, read, handler, code) ==
    [fn |-> "race", arg |-> request,
     val |-> [start |-> start, monitor |-> monitor, read |-> read,
              handler |-> handler, code |-> code]]

NoRequest == Request("none", None, None, None)
NoRead == [expired_sprints |-> {}, incomplete_tasks |-> {}]

\* sprint 1 of project 1 was launched at time 1 for one week with tasks 1..5
\* and is due; tasks 1 and 2 have been worked on; task 6, of project 1 or 2,
\* is in no sprint
InitRace ==
    \E s1 \in {IN_PROGRESS, TESTING, COMPLETE}, s2 \in {AVAILABLE, TESTING}, p6 \in Projects :
        LET status(t) == IF t = 1 THEN s1 ELSE IF t = 2 THEN s2
                         ELSE IF t = Outsider THEN NOT_AVAILABLE ELSE AVAILABLE
        IN
        /\ tasks = [t \in 1..Outsider |->
                [Task(status(t), IF t = Outsider THEN p6 ELSE 1, 2, None, DT_NONE)
                 EXCEPT !.sprint_id = IF t = Outsider THEN None ELSE 1,
                        !.worker_id = IF t = Outsider THEN None ELSE 2]]
        /\ task_info = [t \in 1..Outsider |-> history(status(t))]
        /\ sprints = <<[Sprint(ONE_WEEK, 1) EXCEPT !.start_date = 1, !.end_date = 2,
                                                   !.is_active = TRUE]>>
        /\ next_task_id = Outsider + 1
        /\ next_sprint_id = 2
        /\ now = 2
        /\ resp = Response("init", None, None, None, 0)
        /\ projects = [p \in Projects |-> Project]
        /\ ret = race(<<tasks, task_info, sprints>>, NoRequest, "sleep", NoRead, "idle", 0)

Requests ==
    {Request("mark_task_as_complete", user, None, task_id) : user \in {2, 3}, task_id \in {1, 2}}
    \cup {Request("add_task_to_sprint", 1, 1, Outsider)}

RaceMonitorRead ==
    /\ ret.val.monitor = "sleep"
    /\ ret' = [ret EXCEPT !.val.monitor = "commit",
                          !.val.read = expired_read(tasks, sprints, now)]
    /\ UNCHANGED <<tasks, task_info, sprints, next_task_id, next_sprint_id, now, resp, projects>>

RaceMonitorCommit ==
    /\ ret.val.monitor = "commit"
    /\ tasks' = expired_commit(tasks, sprints, ret.val.read)[1]
    /\ sprints' = expired_commit(tasks, sprints, ret.val.read)[2]
    /\ ret' = [ret EXCEPT !.val.monitor = "done"]
    /\ resp' = Response("check_sprint_expiration", None, None, None, 0)
    /\ UNCHANGED <<task_info, next_task_id, next_sprint_id, now, projects>>

RaceRequestRead ==
    /\ ret.val.handler = "idle"
    /\ \E request \in Requests :
        ret' = [ret EXCEPT !.arg = request,
                           !.val.handler = "commit",
                           !.val.code = request_read(tasks, sprints, request)]
    /\ UNCHANGED <<tasks, task_info, sprints, next_task_id, next_sprint_id, now, resp, projects>>

RaceRequestCommit ==
    /\ ret.val.handler = "commit"
    /\ tasks' = request_commit(tasks, task_info, ret.arg, ret.val.code)[1]
    /\ task_info' = request_commit(tasks, task_info, ret.arg, ret.val.code)[2]
    /\ ret' = [ret EXCEPT !.val.handler = "done"]
    /\ resp' = IF ret.val.code # 200
               THEN Response(ret.arg.op, None, None, None, ret.val.code)
               ELSE IF ret.arg.op = "mark_task_as_complete"
               THEN Response(ret.arg.op, ret.arg.user, ret.arg.task_id, None, 200)
               ELSE Response(ret.arg.op, ret.arg.user, ret.arg.sprint_id, ret.arg.task_id, 200)
    /\ UNCHANGED <<sprints, next_task_id, next_sprint_id, now, projects>>

NextRace == RaceMonitorRead \/ RaceMonitorCommit \/ RaceRequestRead \/ RaceRequestCommit

SpecRace == InitRace /\ [][NextRace]_vars

\* Two create_sprint requests at once.  Each request first runs its
\* permission check and its query for an uncompleted sprint of the project
\* (sprints.py 117-130), and inserts the sprint in a later step (132-141);
\* the store assigns the sprint's id at the insert.  ret holds the two
\* requests and how far each has come.  The store starts empty, or with one
\* sprint of project 1 that is completed, draft or active.
create_read(S, request) ==
    IF ~check_project_permission(request.user, request.project_id) THEN 403
    ELSE IF \E s \in DOMAIN S : /\ S[s].project_id = request.project_id
                                /\ ~S[s].is_completed
        THEN 400
    ELSE 201

create_insert(S, id, request) ==
    [s \in DOMAIN S \cup {id} |->
        IF s = id THEN Sprint(request.duration, request.project_id) ELSE S[s]]

CreateRequest(user, project_id, duration) ==
    [user |-> user, project_id |-> project_id, duration |-> duration]

NoCreate == CreateRequest(None, None, ONE_WEEK)

InitCreate ==
    \E first \in {"none", "completed", "draft", "active"} :
        /\ tasks = <<>>
        /\ task_info = <<>>
        /\ sprints =
            IF first = "none" THEN <<>>
            ELSE IF first = "draft" THEN <<Sprint(ONE_WEEK, 1)>>
            ELSE <<[Sprint(ONE_WEEK, 1) EXCEPT
                        !.start_date = 1, !.end_date = 2,
                        !.is_active = (first = "active"),
                        !.is_completed = (first = "completed")]>>
        /\ next_task_id = 1
        /\ next_sprint_id = IF first = "none" THEN 1 ELSE 2
        /\ now = IF first = "completed" THEN 2 ELSE 1
        /\ resp = Response("init", None, None, None, 0)
        /\ projects = [p \in Projects |-> Project]
        /\ ret = [fn |-> "create_sprint",
                  arg |-> [r \in 1..2 |-> NoCreate],
                  val |-> [r \in 1..2 |-> [at |-> "idle", code |-> 0]]]

\* one of the requests arrives and runs its checks; a failed check raises
\* at once
CreateCheck ==
    /\ \E r \in 1..2, user \in {1, 2}, project_id \in Projects,
          duration \in {ONE_WEEK, TWO_WEEKS} :
        LET request == CreateRequest(user, project_id, duration)
            code == create_read(sprints, request)
        IN
        /\ ret.val[r].at = "idle"
        /\ ret' = [ret EXCEPT !.arg[r] = request,
                              !.val[r] = [at |-> IF code = 201 THEN "insert" ELSE "done",
                                          code |-> code]]
        /\ resp' = IF code = 201 THEN resp
                   ELSE Response("create_sprint", None, None, None, code)
    /\ UNCHANGED <<tasks, task_info, sprints, next_task_id, next_sprint_id, now, projects>>

\* a request that passed its checks adds its sprint and commits
CreateInsert ==
    /\ \E r \in 1..2 :
        /\ ret.val[r].at = "insert"
        /\ sprints' = create_insert(sprints, next_sprint_id, ret.arg[r])
        /\ ret' = [ret EXCEPT !.val[r].at = "done"]
        /\ resp' = Response("create_sprint", ret.arg[r].user, ret.arg[r].project_id, None, 201)
    /\ next_sprint_id' = next_sprint_id + 1
    /\ UNCHANGED <<tasks, task_info, next_task_id, now, projects>>

NextCreate == CreateCheck \/ CreateInsert

SpecCreate == InitCreate /\ [][NextCreate]_vars

\* Two update_task_dependency requests at once.  Each request first loads
\* its task and runs its checks, the walk of check_circular_dependency
\* included (tasks.py 572-602), and writes the dependency, the status and the
\* TaskInfo row in a later step (604-629).  ret holds the two requests and
\* how far each has come.  Tasks 1..3 of project 1 are in no sprint; task 3
\* is free or depends on task 2.
update_read(T, request) ==
    IF request.task_id \notin DOMAIN T THEN 404
    ELSE IF ~check_project_permission(request.user, T[request.task_id].project_id) THEN 403
    ELSE IF request.dependent_on = None THEN 200
    ELSE IF request.dependent_on \notin DOMAIN T THEN 404
    ELSE IF T[request.dependent_on].project_id # T[request.task_id].project_id THEN 400
    ELSE IF check_circular_dependency(T, request.task_id, request.dependent_on) THEN 400
    ELSE 200

update_write(T, I, request) ==
    LET task_id == request.task_id
        T1 == [T EXCEPT ![task_id].dependent_on = request.dependent_on,
                        ![task_id].dependency_type = request.dependency_type]
        status == IF in_active_sprint(T1[task_id])
                  THEN IF request.dependent_on # None
                       THEN IF check_dependency_status(T1, T1[task_id])
                            THEN AVAILABLE ELSE WAIT
                       ELSE NOT_AVAILABLE
                  ELSE T1[task_id].status
    IN  <<[T1 EXCEPT ![task_id].status = status], TaskInfo(I, task_id, status)>>

LinkRequest(user, task_id, dependent_on, dependency_type) ==
    [user |-> user, task_id |-> task_id, dependent_on |-> dependent_on,
     dependency_type |-> dependency_type]

NoLink == LinkRequest(None, None, None, DT_NONE)

InitLink ==
    \E d3 \in {None, 2} :
        /\ tasks = [t \in 1..3 |->
                Task(NOT_AVAILABLE, 1, 2,
                     IF t = 3 THEN d3 ELSE None,
                     IF t = 3 /\ d3 # None THEN FS ELSE DT_NONE)]
        /\ task_info = [t \in 1..3 |-> <<NOT_AVAILABLE>>]
        /\ sprints = <<>>
        /\ next_task_id = 4
        /\ next_sprint_id = 1
        /\ now = 1
        /\ resp = Response("init", None, None, None, 0)
        /\ projects = [p \in Projects |-> Project]
        /\ ret = [fn |-> "update_task_dependency",
                  arg |-> [r \in 1..2 |-> NoLink],
                  val |-> [r \in 1..2 |-> [at |-> "idle", code |-> 0]]]

\* one of the requests arrives and runs its checks; a failed check raises
\* at once
LinkCheck ==
    /\ \E r \in 1..2, user \in {1, 2}, task_id \in 1..3,
          d \in {<<None, DT_NONE>>} \cup ((1..3) \X {FS}) :
        LET request == LinkRequest(user, task_id, d[1], d[2])
            code == update_read(tasks, request)
        IN
        /\ ret.val[r].at = "idle"
        /\ ret' = [ret EXCEPT !.arg[r] = request,
                              !.val[r] = [at |-> IF code = 200 THEN "write" ELSE "done",
                                          code |-> code]]
        /\ resp' = IF code = 200 THEN resp
                   ELSE Response("update_task_dependency", None, None, None, code)
    /\ UNCHANGED <<tasks, task_info, sprints, next_task_id, next_sprint_id, now, projects>>

\* a request that passed its checks writes and commits
LinkWrite ==
    /\ \E r \in 1..2 :
        /\ ret.val[r].at = "write"
        /\ tasks' = update_write(tasks, task_info, ret.arg[r])[1]
        /\ task_info' = update_write(tasks, task_info, ret.arg[r])[2]
        /\ ret' = [ret EXCEPT !.val[r].at = "done"]
        /\ resp' = Response("update_task_dependency", ret.arg[r].user,
                            ret.arg[r].task_id, ret.arg[r].dependent_on, 200)
    /\ UNCHANGED <<sprints, next_task_id, next_sprint_id, now, projects>>

NextLink == LinkCheck \/ LinkWrite

SpecLink == InitLink /\ [][NextLink]_vars

\* Membership.  The draft sprint 2 of the launch specification and its
\* expired predecessor, with the requests that move tasks in and out of
\* sprints: a task of project 2 is created, tasks are added to either sprint
\* and removed, the sprint is launched or deleted, tasks are deleted.
Foreign == Deleted + 1

MemberCreate ==
    /\ create_task(1, 2, None, None, DT_NONE)
    /\ next_task_id' <= Foreign + 1

MemberAdd ==
    \E user \in {1, 2}, sprint_id \in 1..2, task_id \in {4, MinSprintTasks, Outsider, Foreign} :
        add_task_to_sprint(user, sprint_id, task_id)

MemberRemove ==
    \E user \in {1, 2}, task_id \in {4, MinSprintTasks, Outsider} :
        remove_task_from_sprint(user, task_id)

MemberDeleteSprint ==
    \E sprint_id \in 1..2 : delete_sprint(1, sprint_id)

MemberDeleteTask ==
    \E task_id \in {MinSprintTasks, Outsider} : delete_task(1, task_id)

NextMember ==
    \/ MemberCreate \/ MemberAdd \/ MemberRemove \/ MemberDeleteSprint
    \/ MemberDeleteTask \/ LaunchAssign \/ LaunchTry

SpecMember == InitLaunch /\ [][NextMember]_vars

\* Project completion.  Project 1 has tasks 1..5 in its active sprint 1,
\* tasks 3..5 COMPLETE and tasks 1 and 2 in TESTING or COMPLETE; project 2 has
\* no task or one task that was never started.  The tester completes tasks,
\* the owner creates a task, the owner and a worker ask for the completion of
\* a project.
InitProject ==
    \E s1, s2 \in {TESTING, COMPLETE}, others \in {0, 1} :
        LET status(t) == IF t = 1 THEN s1 ELSE IF t = 2 THEN s2
                         ELSE IF t <= MinSprintTasks THEN COMPLETE ELSE NOT_AVAILABLE
        IN
        /\ tasks = [t \in 1..(MinSprintTasks + others) |->
                IF t <= MinSprintTasks
                THEN [Task(status(t), 1, 2, None, DT_NONE) EXCEPT !.sprint_id = 1]
                ELSE Task(NOT_AVAILABLE, 2, None, None, DT_NONE)]
        /\ task_info = [t \in 1..(MinSprintTasks + others) |-> history(status(t))]
        /\ sprints = <<[Sprint(TWO_WEEKS, 1) EXCEPT !.start_date = 1, !.end_date = 3,
                                                    !.is_active = TRUE]>>
        /\ next_task_id = MinSprintTasks + others + 1
        /\ next_sprint_id = 2
        /\ now = 1
        /\ resp = Response("init", None, None, None, 0)
        /\ projects = [p \in Projects |-> Project]
        /\ ret = [fn |-> "none", arg |-> None, val |-> FALSE]

ProjectComplete ==
    \E user \in {1, 2}, project_id \in {1, 2, 3} : complete_project(user, project_id)

ProjectMark ==
    \E task_id \in {1, 2} : mark_task_as_complete(3, task_id)

ProjectCreate ==
    /\ create_task(1, 1, None, None, DT_NONE)
    /\ next_task_id' <= MinSprintTasks + 3

NextProject == ProjectComplete \/ ProjectMark \/ ProjectCreate \/ Clock

SpecProject == InitProject /\ [][NextProject]_vars

\* Chain.  The lifecycle specification's chain 1 <- 2 <- 3 with room for the
\* whole life of tasks 1 and 2: the sprint is launched and the worker and
\* the tester take the tasks through their transitions.
ChainCap == \A t \in DOMAIN task_info' : Len(task_info'[t]) <= MaxTaskId + 3

ChainLaunch ==
    \E order \in QueryOrders(sprint_tasks(tasks, 1)) : launch_sprint(1, 1, order)

ChainStart ==
    \E user \in {2, 3}, task_id \in 1..3 : start_task(user, task_id) /\ ChainCap

ChainTesting ==
    \E task_id \in 1..3 : mark_task_as_testing(2, task_id) /\ ChainCap

ChainFeedback ==
    \E task_id \in 1..3 : mark_task_as_feedback(3, task_id) /\ ChainCap

ChainComplete ==
    \E user \in {2, 3}, task_id \in 1..3 : mark_task_as_complete(user, task_id) /\ ChainCap

NextChain == ChainLaunch \/ ChainStart \/ ChainTesting \/ ChainFeedback \/ ChainComplete

SpecChain == InitLife /\ [][NextChain]_vars

\* References.  Sprint 1 of project 1 runs since time 1 for one week with
\* tasks 1..5; task 1 is AVAILABLE or IN_PROGRESS, task 2 in TESTING or
\* COMPLETE.  The worker and the tester move tasks 1 and 2 on, the clock
\* advances and the monitor runs, and the owner sends the requests that can
\* touch a task of a sprint that has ended: the dependency of task 2 is
\* rewritten, a further sprint is created, filled with tasks 1 and 2 and
\* deleted.
InitRef ==
    \E s1 \in {AVAILABLE, IN_PROGRESS}, s2 \in {TESTING, COMPLETE} :
        LET status(t) == IF t = 1 THEN s1 ELSE IF t = 2 THEN s2 ELSE AVAILABLE IN
        /\ tasks = [t \in 1..MinSprintTasks |->
                [Task(status(t), 1, 2, None, DT_NONE) EXCEPT !.sprint_id = 1]]
        /\ task_info = [t \in 1..MinSprintTasks |-> history(status(t))]
        /\ sprints = <<[Sprint(ONE_WEEK, 1) EXCEPT !.start_date = 1, !.end_date = 2,
                                                   !.is_active = TRUE]>>
        /\ next_task_id = MinSprintTasks + 1
        /\ next_sprint_id = 2
        /\ now = 1
        /\ resp = Response("init", None, None, None, 0)
        /\ projects = [p \in Projects |-> Project]
        /\ ret = [fn |-> "none", arg |-> None, val |-> FALSE]

RefTesting ==
    \E task_id \in 1..2 : mark_task_as_testing(2, task_id) /\ ChainCap

RefComplete ==
    \E task_id \in 1..2 : mark_task_as_complete(3, task_id) /\ ChainCap

RefUpdate ==
    \E r \in {<<None, DT_NONE>>, <<1, FS>>} :
        update_task_dependency(1, 2, r[1], r[2]) /\ ChainCap

RefCreate ==
    /\ create_sprint(1, 1, ONE_WEEK)
    /\ next_sprint_id' <= MaxSprintId + 1

RefAdd ==
    \E sprint_id \in 1..MaxSprintId, task_id \in 1..2 :
        add_task_to_sprint(1, sprint_id, task_id)

RefDelete ==
    \E sprint_id \in 1..MaxSprintId : delete_sprint(1, sprint_id)

NextRef ==
    \/ RefTesting \/ RefComplete \/ Monitor \/ Clock
    \/ RefUpdate \/ RefCreate \/ RefAdd \/ RefDelete

SpecRef == InitRef /\ [][NextRef]_vars

\* Wake-ups.  Sprint 1 of project 1 was launched with tasks 1..5, task 2 a
\* dependent (FS or SS) of task 1, and has expired with none of them
\* complete: task 1 was left AVAILABLE or IN_PROGRESS and task 2 as the
\* launch and the start of task 1 left it.  Task MinSprintTasks + 1 was
\* created since, and the draft sprint 2 holds every task but task 2.  The
\* owner launches sprint 2, rewrites the dependency of task 2, deletes task 1
\* and adds task 2 to the sprint; the worker and the tester move tasks 1
\* and 2 on.
InitWake ==
    \E s1 \in {AVAILABLE, IN_PROGRESS}, kind \in {FS, SS} :
        LET woken == s1 = IN_PROGRESS /\ kind = SS
            status(t) == IF t = 1 THEN s1
                         ELSE IF t = 2 THEN IF woken THEN AVAILABLE ELSE WAIT
                         ELSE IF t <= MinSprintTasks THEN AVAILABLE
                         ELSE NOT_AVAILABLE
        IN
        /\ tasks = [t \in 1..(MinSprintTasks + 1) |->
                [Task(status(t), 1, 2,
                      IF t = 2 THEN 1 ELSE None, IF t = 2 THEN kind ELSE DT_NONE)
                 EXCEPT !.sprint_id = IF t = 2 THEN None ELSE 2]]
        /\ task_info = [t \in 1..(MinSprintTasks + 1) |->
                IF t = 2 THEN IF woken THEN <<NOT_AVAILABLE, WAIT, AVAILABLE>>
                              ELSE <<NOT_AVAILABLE, WAIT>>
                ELSE history(status(t))]
        /\ sprints = <<[Sprint(ONE_WEEK, 1) EXCEPT !.start_date = 1, !.end_date = 2,
                                                   !.is_completed = TRUE],
                       Sprint(ONE_WEEK, 1)>>
        /\ next_task_id = MinSprintTasks + 2
        /\ next_sprint_id = 3
        /\ now = 2
        /\ resp = Response("init", None, None, None, 0)
        /\ projects = [p \in Projects |-> Project]
        /\ ret = [fn |-> "none", arg |-> None, val |-> FALSE]

WakeLaunch ==
    \E order \in QueryOrders(sprint_tasks(tasks, 2)) : launch_sprint(1, 2, order)

WakeStart ==
    \E task_id \in 1..2 : start_task(2, task_id) /\ ChainCap

WakeTesting ==
    \E task_id \in 1..2 : mark_task_as_testing(2, task_id) /\ ChainCap

WakeComplete ==
    \E task_id \in 1..2 : mark_task_as_complete(3, task_id) /\ ChainCap

WakeUpdate ==
    \E r \in {<<None, DT_NONE>>, <<1, FS>>, <<1, SS>>} :
        update_task_dependency(1, 2, r[1], r[2]) /\ ChainCap

WakeDelete ==
    delete_task(1, 1)

WakeAdd ==
    add_task_to_sprint(1, 2, 2)

NextWake ==
    \/ WakeLaunch \/ WakeStart \/ WakeTesting \/ WakeComplete
    \/ WakeUpdate \/ WakeDelete \/ WakeAdd

SpecWake == InitWake /\ [][NextWake]_vars

\* The satisfaction check as a function: the task table is any table of two
\* tasks in which task 2 names no prerequisite, task 1 or a task that is not
\* in the table (MaxTaskId),
\* with any dependency type and any pair of statuses; the check is then
\* evaluated on either task.
InitFn ==
    \E s1, s2 \in TaskStatus, d \in {None, 1, MaxTaskId}, k \in DependencyType :
        /\ tasks = <<Task(s1, 1, None, None, DT_NONE), Task(s2, 1, None, d, k)>>
        /\ task_info = <<<<s1>>, <<s2>>>>
        /\ sprints = <<>>
        /\ next_task_id = MaxTaskId + 1
        /\ next_sprint_id = 1
        /\ now = 1
        /\ resp = Response("init", None, None, None, 0)
        /\ projects = [p \in Projects |-> Project]
        /\ ret = [fn |-> "none", arg |-> None, val |-> FALSE]

EvalDependencyStatus ==
    \E t \in DOMAIN tasks :
        /\ ret' = [fn |-> "check_dependency_status", arg |-> t,
                   val |-> check_dependency_status(tasks, tasks[t])]
        /\ UNCHANGED <<tasks, task_info, sprints, next_task_id, next_sprint_id, now, resp, projects>>

NextFn == EvalDependencyStatus

SpecFn == InitFn /\ [][NextFn]_vars

\* the locals of one call of check_circular_dependency
locals(pc, current, visited, iterations, result) ==
    [pc |-> pc, current |-> current, visited |-> visited,
     iterations |-> iterations, result |-> result]

\* The cycle check as a function and as a loop: the task table is any table
\* of MaxTaskId tasks whose dependent_on is unset, another task, the task
\* itself or a task that is not in the table (MaxTaskId + 1), so chains that
\* already hold a cycle or lead out of the table are included. The check is
\* evaluated on a pair of task ids, in the table or not, or run one loop
\* iteration at a time; ret then holds
\* the call in flight: arg = <<task_id, dependency_id>>, val = the locals.
InitWalk ==
    \E d \in [1..MaxTaskId -> 0..(MaxTaskId + 1)] :
        /\ tasks = [t \in 1..MaxTaskId |->
                Task(NOT_AVAILABLE, 1, None, d[t], IF d[t] = None THEN DT_NONE ELSE FS)]
        /\ task_info = [t \in 1..MaxTaskId |-> <<NOT_AVAILABLE>>]
        /\ sprints = <<>>
        /\ next_task_id = MaxTaskId + 2
        /\ next_sprint_id = 1
        /\ now = 1
        /\ resp = Response("init", None, None, None, 0)
        /\ projects = [p \in Projects |-> Project]
        /\ ret = [fn |-> "none", arg |-> <<None, None>>,
                  val |-> locals("return", None, {}, 0, FALSE)]

in_while == ret.fn = "while" /\ ret.val.pc = "while"

EvalCircular ==
    \E task_id, dependency_id \in 1..(MaxTaskId + 1) :
        /\ ~in_while
        /\ ret' = [fn |-> "check_circular_dependency",
                   arg |-> <<task_id, dependency_id>>,
                   val |-> locals("return", None, {}, 0,
                        check_circular_dependency(tasks, task_id, dependency_id))]
        /\ UNCHANGED <<tasks, task_info, sprints, next_task_id, next_sprint_id, now, resp, projects>>

\* current = dependency_id; visited = set()
CallCircular ==
    \E task_id, dependency_id \in 1..(MaxTaskId + 1) :
        /\ ~in_while
        /\ ret' = [fn |-> "while",
                   arg |-> <<task_id, dependency_id>>,
                   val |-> locals("while", dependency_id, {}, 0, FALSE)]
        /\ UNCHANGED <<tasks, task_info, sprints, next_task_id, next_sprint_id, now, resp, projects>>

\* a loop body that never records the task it visited
WhileStep_no_visited ==
    /\ in_while
    /\ LET task_id == ret.arg[1]
           l == ret.val
           Return(v) == [l EXCEPT !.pc = "return", !.result = v,
                                  !.iterations = l.iterations + 1]
       IN  ret' = [ret EXCEPT !.val =
                IF l.current = None THEN [l EXCEPT !.pc = "return", !.result = FALSE]
                ELSE IF l.current = task_id THEN Return(TRUE)
                ELSE IF l.current \in l.visited THEN Return(TRUE)
                ELSE IF \/ l.current \notin DOMAIN tasks
                        \/ tasks[l.current].dependent_on = None
                    THEN Return(FALSE)
                ELSE [l EXCEPT !.current = tasks[l.current].dependent_on,
                               !.iterations = l.iterations + 1]]
    /\ ret'.val.iterations <= MaxTaskId + 3
    /\ UNCHANGED <<tasks, task_info, sprints, next_task_id, next_sprint_id, now, resp, projects>>

\* one test of `while current:` and, when it passes, one run of the body
WhileStep ==
    /\ in_while
    /\ LET task_id == ret.arg[1]
           l == ret.val
           Return(v) == [l EXCEPT !.pc = "return", !.result = v,
                                  !.iterations = l.iterations + 1]
       IN  ret' = [ret EXCEPT !.val =
                IF l.current = None THEN [l EXCEPT !.pc = "return", !.result = FALSE]
                ELSE IF l.current = task_id THEN Return(TRUE)
                ELSE IF l.current \in l.visited THEN Return(TRUE)
                ELSE IF \/ l.current \notin DOMAIN tasks
                        \/ tasks[l.current].dependent_on = None
                    THEN [Return(FALSE) EXCEPT !.visited = l.visited \cup {l.current}]
                ELSE [l EXCEPT !.current = tasks[l.current].dependent_on,
                               !.visited = l.visited \cup {l.current},
                               !.iterations = l.iterations + 1]]
    /\ ret'.val.iterations <= MaxTaskId + 3
    /\ UNCHANGED <<tasks, task_info, sprints, next_task_id, next_sprint_id, now, resp, projects>>

NextWalk == EvalCircular \/ CallCircular \/ WhileStep

SpecWalk == InitWalk /\ [][NextWalk]_vars

\* the event loop runs a handler that was called to its end
FairWalk == SpecWalk /\ WF_vars(WhileStep)

\* ------------------------------------------------ claims: dependency graph
\* the task reached from t by following n dependent_on links (None when the
\* chain ends or leaves the table first)
RECURSIVE Follow(_, _, _)
Follow(T, t, n) ==
    IF n = 0 THEN t
    ELSE IF t \notin DOMAIN T THEN None
    ELSE Follow(T, T[t].dependent_on, n - 1)

Reaches(T, a, b) == \E n \in 1..Cardinality(DOMAIN T) : Follow(T, a, n) = b

\* C1: the dependent_on relation over the existing tasks is acyclic: no task
\* reaches itself by following dependent_on links, a self-dependency included.
C1_Acyclic == \A t \in DOMAIN tasks : ~Reaches(tasks, t, t)

\* C1 witness: with the chain 3 -> 2 -> 1 in place, a request to make a task
\* depend on a task that reaches it was answered 400
C1_Witness ==
    /\ resp.op = "update_task_dependency" /\ resp.code = 400
    /\ \E a, b, c \in DOMAIN tasks :
        /\ a # b /\ b # c /\ a # c
        /\ tasks[c].dependent_on = b /\ tasks[b].dependent_on = a
        /\ tasks[a].project_id = tasks[c].project_id

\* C2: every dependent_on that is set names an existing task of the same
\* project, and a create_task or update_task_dependency request that was
\* served named no prerequisite or an existing one of the task's project.
C2_RefsValid ==
    \A t \in DOMAIN tasks :
        tasks[t].dependent_on # None =>
            /\ tasks[t].dependent_on \in DOMAIN tasks
            /\ tasks[tasks[t].dependent_on].project_id = tasks[t].project_id

C2_ServedOnlyValid ==
    /\ (resp'.op = "create_task" /\ resp'.code = 201 /\ resp'.arg # None) =>
            /\ resp'.arg \in DOMAIN tasks
            /\ tasks[resp'.arg].project_id = resp'.id
    /\ (resp'.op = "update_task_dependency" /\ resp'.code = 200 /\ resp'.arg # None) =>
            /\ resp'.arg \in DOMAIN tasks
            /\ tasks[resp'.arg].project_id = tasks[resp'.id].project_id
    /\ (resp'.op \in {"create_task", "update_task_dependency"}
            /\ resp'.code \notin {200, 201}) => UNCHANGED <<tasks, task_info, projects>>

C2_SameProject == []C2_RefsValid /\ [][C2_ServedOnlyValid]_vars

\* C2 witness: a prerequisite was deleted while a task of another project
\* exists: the former dependent is unlinked (it keeps its FS type) and every
\* link left is inside one project
C2_Witness ==
    /\ resp.op = "delete_task" /\ resp.code = 200
    /\ \E t, u \in DOMAIN tasks :
        /\ tasks[t].dependent_on = None /\ tasks[t].dependency_type = FS
        /\ tasks[u].project_id # tasks[t].project_id

\* ----------------------------------------------- claims: sprint lifecycle
uncompleted(project_id) ==
    {s \in DOMAIN sprints : sprints[s].project_id = project_id /\ ~sprints[s].is_completed}

\* C3: each project has at most one sprint with is_completed = false, and a
\* create_sprint on a project that has one fails and creates nothing.
C3_AtMostOne == \A p \in Projects : Cardinality(uncompleted(p)) <= 1

C3_CreateStep ==
    resp'.op = "create_sprint" =>
        /\ resp'.code = 201 => uncompleted(resp'.id) = {}
        /\ resp'.code # 201 => sprints' = sprints /\ next_sprint_id' = next_sprint_id

C3_OneOpenSprint == []C3_AtMostOne /\ [][C3_CreateStep]_vars

\* C3 witness: a project whose first sprint has completed holds a second,
\* uncompleted sprint, and a further create_sprint was answered 400
C3_Witness ==
    /\ resp.op = "create_sprint" /\ resp.code = 400
    /\ \E s1, s2 \in DOMAIN sprints :
        /\ sprints[s1].project_id = sprints[s2].project_id
        /\ sprints[s1].is_completed /\ ~sprints[s2].is_completed

DRAFT(sprint) == ~sprint.is_active /\ ~sprint.is_completed
ACTIVE(sprint) == sprint.is_active /\ ~sprint.is_completed
COMPLETED(sprint) == ~sprint.is_active /\ sprint.is_completed

\* C4: a sprint is always DRAFT, ACTIVE or COMPLETED; it leaves DRAFT only to
\* ACTIVE and only by a served launch_sprint on it, leaves ACTIVE only to
\* COMPLETED and only by the expiration monitor, and never leaves COMPLETED;
\* a served launch_sprint found its sprint in DRAFT.
C4_Pairs ==
    \A s \in DOMAIN sprints :
        DRAFT(sprints[s]) \/ ACTIVE(sprints[s]) \/ COMPLETED(sprints[s])

C4_Step ==
    /\ \A s \in DOMAIN sprints \cap DOMAIN sprints' :
        /\ COMPLETED(sprints[s]) => COMPLETED(sprints'[s])
        /\ ACTIVE(sprints[s]) =>
            \/ ACTIVE(sprints'[s])
            \/ COMPLETED(sprints'[s]) /\ resp'.op = "check_sprint_expiration"
        /\ DRAFT(sprints[s]) =>
            \/ DRAFT(sprints'[s])
            \/ /\ ACTIVE(sprints'[s])
               /\ resp'.op = "launch_sprint" /\ resp'.code = 200 /\ resp'.id = s
    /\ \A s \in DOMAIN sprints \ DOMAIN sprints' : DRAFT(sprints[s])
    /\ \A s \in DOMAIN sprints' \ DOMAIN sprints : DRAFT(sprints'[s])
    /\ (resp'.op = "launch_sprint" /\ resp'.code = 200) =>
            /\ resp'.id \in DOMAIN sprints
            /\ DRAFT(sprints[resp'.id])
            /\ ACTIVE(sprints'[resp'.id])

C4_Lifecycle == []C4_Pairs /\ [][C4_Step]_vars

\* C4 witness: every sprint in the store is COMPLETED, one of them exists, and
\* a launch_sprint was answered 400 (404 is the answer for a missing sprint)
C4_Witness ==
    /\ resp.op = "launch_sprint" /\ resp.code = 400
    /\ DOMAIN sprints # {}
    /\ \A s \in DOMAIN sprints : COMPLETED(sprints[s])

\* ------------------------------------------------ claims: task transitions
four_transitions ==
    {"start_task", "mark_task_as_testing", "mark_task_as_feedback", "mark_task_as_complete"}

\* the task's sprint reference names a sprint of the store that is active
SprintActive(t) ==
    /\ tasks[t].sprint_id # None
    /\ tasks[t].sprint_id \in DOMAIN sprints
    /\ sprints[tasks[t].sprint_id].is_active

\* C5: a served start_task found the task AVAILABLE or FEEDBACK and the caller
\* its worker; a served mark_task_as_testing found it IN_PROGRESS and the
\* caller its worker; a served mark_task_as_feedback or mark_task_as_complete
\* found it TESTING and the caller a tester; all four found the task's sprint
\* existing and active; a rejected one leaves statuses and history unchanged.
C5_Step ==
    resp'.op \in four_transitions =>
        IF resp'.code = 200
        THEN /\ resp'.id \in DOMAIN tasks
             /\ SprintActive(resp'.id)
             /\ resp'.op = "start_task" =>
                    /\ tasks[resp'.id].status \in {AVAILABLE, FEEDBACK}
                    /\ tasks[resp'.id].worker_id = resp'.user
                    /\ tasks'[resp'.id].status = IN_PROGRESS
             /\ resp'.op = "mark_task_as_testing" =>
                    /\ tasks[resp'.id].status = IN_PROGRESS
                    /\ tasks[resp'.id].worker_id = resp'.user
                    /\ tasks'[resp'.id].status = TESTING
             /\ resp'.op = "mark_task_as_feedback" =>
                    /\ tasks[resp'.id].status = TESTING
                    /\ role(resp'.user) = Tester
                    /\ tasks'[resp'.id].status = FEEDBACK
             /\ resp'.op = "mark_task_as_complete" =>
                    /\ tasks[resp'.id].status = TESTING
                    /\ role(resp'.user) = Tester
                    /\ tasks'[resp'.id].status = COMPLETE
        ELSE UNCHANGED <<tasks, task_info, projects>>

C5_GuardedTransitions == [][C5_Step]_vars

\* C5 witness: the tester has completed task 1, which worker 2 had started
\* and submitted, and task 2 is still short of TESTING
C5_Witness ==
    /\ resp.op = "mark_task_as_complete" /\ resp.code = 200 /\ resp.user = 3
    /\ 1 \in DOMAIN tasks /\ tasks[1].status = COMPLETE
    /\ task_info[1] = <<NOT_AVAILABLE, AVAILABLE, IN_PROGRESS, TESTING, COMPLETE>>

\* the threshold of the task's dependency kind, read from the table T
Satisfied(T, t) ==
    /\ T[t].dependent_on \in DOMAIN T
    /\ T[t].dependency_type = FS => T[T[t].dependent_on].status = COMPLETE
    /\ T[t].dependency_type = SS =>
            T[T[t].dependent_on].status \in {IN_PROGRESS, TESTING, FEEDBACK, COMPLETE}

\* C6: whenever start_task moves a task with an FS dependency to IN_PROGRESS
\* its prerequisite is COMPLETE, and whenever it moves a task with an SS
\* dependency its prerequisite is IN_PROGRESS, TESTING, FEEDBACK or COMPLETE.
C6_Step ==
    (/\ resp'.op = "start_task" /\ resp'.code = 200
     /\ tasks[resp'.id].dependent_on # None
     /\ tasks[resp'.id].dependency_type \in {FS, SS}) => Satisfied(tasks, resp'.id)

C6_StartNeedsDependency == [][C6_Step]_vars

\* the edges of the transition table, op the operation that made the step
TableEdge(from, to, op) ==
    \/ from \in {AVAILABLE, FEEDBACK} /\ to = IN_PROGRESS
    \/ from = IN_PROGRESS /\ to = TESTING
    \/ from = TESTING /\ to = FEEDBACK
    \/ from = TESTING /\ to = COMPLETE
    \/ from = WAIT /\ to = AVAILABLE
    \/ /\ op = "launch_sprint"
       /\ from \in {NOT_AVAILABLE, WAIT, AVAILABLE}
       /\ to \in {AVAILABLE, WAIT}

\* C7: every change of a task's status is an edge of the transition table.
C7_Step ==
    \A t \in DOMAIN tasks \cap DOMAIN tasks' :
        tasks'[t].status # tasks[t].status =>
            TableEdge(tasks[t].status, tasks'[t].status, resp'.op)

C7_OnlyTableEdges == [][C7_Step]_vars

\* C8: once a task is COMPLETE no step changes its status.
C8_Step ==
    \A t \in DOMAIN tasks \cap DOMAIN tasks' :
        tasks[t].status = COMPLETE => tasks'[t].status = COMPLETE

C8_CompleteTerminal == [][C8_Step]_vars

\* C9: a step that changes a task's status appends exactly one TaskInfo row
\* for that task, and the row carries the new status.
C9_Step ==
    \A t \in DOMAIN tasks \cap DOMAIN tasks' :
        tasks'[t].status # tasks[t].status =>
            task_info'[t] = Append(task_info[t], tasks'[t].status)

C9_ChangeRecorded == [][C9_Step]_vars

\* C9 witness: completing task 1 moved its FS dependent, task 2, from WAIT to
\* AVAILABLE, and task 2's history ends with that row
C9_Witness ==
    /\ resp.op = "mark_task_as_complete" /\ resp.code = 200 /\ resp.id = 1
    /\ 2 \in DOMAIN tasks /\ tasks[2].status = AVAILABLE
    /\ tasks[2].dependent_on = 1 /\ tasks[2].dependency_type = FS
    /\ task_info[2] = <<NOT_AVAILABLE, WAIT, AVAILABLE>>

\* ------------------------------------------- claims: satisfaction check
\* C10: check_dependency_status returns true when dependent_on is unset; for
\* FS exactly when the prerequisite exists and is COMPLETE; for SS exactly
\* when it exists and is IN_PROGRESS, TESTING, FEEDBACK or COMPLETE; and false
\* when the prerequisite is missing.
C10_CheckDependencyStatus ==
    ret.fn = "check_dependency_status" =>
        LET task == tasks[ret.arg]
            exists == task.dependent_on \in DOMAIN tasks
        IN  /\ task.dependent_on = None => ret.val = TRUE
            /\ (task.dependent_on # None /\ task.dependency_type = FS) =>
                    (ret.val <=> exists /\ tasks[task.dependent_on].status = COMPLETE)
            /\ (task.dependent_on # None /\ task.dependency_type = SS) =>
                    (ret.val <=> exists /\ tasks[task.dependent_on].status
                                    \in {IN_PROGRESS, TESTING, FEEDBACK, COMPLETE})
            /\ (task.dependent_on # None /\ ~exists) => ret.val = FALSE

\* C10 witness: the check returned true for an SS dependent whose prerequisite
\* is in FEEDBACK
C10_Witness ==
    /\ ret.fn = "check_dependency_status" /\ ret.arg = 2 /\ ret.val = TRUE
    /\ tasks[2].dependent_on = 1 /\ tasks[2].dependency_type = SS
    /\ tasks[1].status = FEEDBACK

\* C11: for a task whose dependency_type is NONE the satisfaction check
\* returns true in every state, also when dependent_on is set and whatever
\* the status of the prerequisite.
C11_NoneAlwaysSatisfied ==
    (/\ ret.fn = "check_dependency_status"
     /\ tasks[ret.arg].dependency_type = DT_NONE) => ret.val = TRUE

\* ------------------------------------------------ claims: cycle check
\* task b is a, or is met by following dependent_on links from a
Hits(T, a, b) == \E n \in 0..Cardinality(DOMAIN T) : Follow(T, a, n) = b

Acyclic(T) == \A t \in DOMAIN T : ~Reaches(T, t, t)

Expected(T, task_id, dependency_id, result) ==
    /\ Hits(T, dependency_id, task_id) => result = TRUE
    /\ (Acyclic(T) /\ ~Hits(T, dependency_id, task_id)) => result = FALSE

\* C12: check_circular_dependency returns true whenever task_id is reached
\* from the proposed prerequisite by following dependent_on links (the two
\* being equal included), and on an acyclic table false in every other case;
\* the loop run step by step returns the same.
C12_CycleCheckCorrect ==
    /\ ret.fn = "check_circular_dependency" =>
            Expected(tasks, ret.arg[1], ret.arg[2], ret.val.result)
    /\ (ret.fn = "while" /\ ret.val.pc = "return") =>
            Expected(tasks, ret.arg[1], ret.arg[2], ret.val.result)

\* C12 witness: with the chain 3 -> 2 -> 1, the check for making task 1 depend
\* on task 3 returned true
C12_Witness ==
    /\ ret.fn = "check_circular_dependency" /\ ret.arg = <<1, 3>>
    /\ ret.val.result = TRUE
    /\ tasks[3].dependent_on = 2 /\ tasks[2].dependent_on = 1
    /\ tasks[1].dependent_on = None

\* C13: the loop of check_circular_dependency returns on every task table,
\* one with a cycle that does not pass through task_id and one with a link
\* to a missing task included, after at most (number of tasks + 1) iterations.
C13_Iterations ==
    ret.fn = "while" => ret.val.iterations <= Cardinality(DOMAIN tasks) + 1

C13_Terminates ==
    /\ []C13_Iterations
    /\ in_while ~> (ret.fn = "while" /\ ret.val.pc = "return")

\* C13 witness: called for task 1 on the pre-existing cycle 2 -> 3 -> 2, which
\* never meets task 1, the loop returned true after three iterations
C13_Witness ==
    /\ ret.fn = "while" /\ ret.val.pc = "return" /\ ret.arg = <<1, 2>>
    /\ tasks[2].dependent_on = 3 /\ tasks[3].dependent_on = 2
    /\ ret.val.result = TRUE /\ ret.val.iterations = 3

\* ------------------------------------------------ claims: dependency edits
\* C14: an update_task_dependency request that is rejected (it would close a
\* cycle, or its prerequisite is missing or in another project) leaves every
\* task's dependent_on, dependency_type and status and the transition history
\* as they were; a request that is served named no prerequisite, or one of the
\* task's project from which the task is not reached.
C14_Step ==
    resp'.op = "update_task_dependency" =>
        IF resp'.code = 200
        THEN resp'.arg # None =>
                /\ resp'.arg \in DOMAIN tasks
                /\ tasks[resp'.arg].project_id = tasks[resp'.id].project_id
                /\ ~Hits(tasks, resp'.arg, resp'.id)
        ELSE UNCHANGED <<tasks, task_info, projects>>

C14_RejectedUpdateWritesNothing == [][C14_Step]_vars

\* C14 witness: tasks 1 and 2 of one project, 2 depending on 1; a request was
\* answered 400 (it can only have been one closing a cycle) and task 1 still
\* has its creation row only
C14_Witness ==
    /\ resp.op = "update_task_dependency" /\ resp.code = 400
    /\ DOMAIN tasks = {1, 2}
    /\ tasks[1].project_id = tasks[2].project_id
    /\ tasks[2].dependent_on = 1 /\ tasks[1].dependent_on = None
    /\ task_info[1] = <<NOT_AVAILABLE>>

\* C15: after delete_task removed a task, every task that named it as
\* dependent_on has dependent_on unset and dependency_type NONE.
C15_Step ==
    (resp'.op = "delete_task" /\ resp'.code = 200) =>
        \A t \in DOMAIN tasks' :
            tasks[t].dependent_on = resp'.id =>
                /\ tasks'[t].dependent_on = None
                /\ tasks'[t].dependency_type = DT_NONE

C15_DeleteClearsDependency == [][C15_Step]_vars

\* C16: when delete_task removes a task, each task that named it as
\* dependent_on and whose sprint is active ends AVAILABLE with one new
\* TaskInfo row, and each such task in no sprint or in a sprint that is not
\* active keeps its status and gets no row.
C16_Step ==
    (resp'.op = "delete_task" /\ resp'.code = 200) =>
        \A t \in DOMAIN tasks \ {resp'.id} :
            tasks[t].dependent_on = resp'.id =>
                /\ t \in DOMAIN tasks'
                /\ tasks'[t].dependent_on = None
                /\ IF SprintActive(t)
                   THEN /\ tasks'[t].status = AVAILABLE
                        /\ task_info'[t] = Append(task_info[t], AVAILABLE)
                   ELSE /\ tasks'[t].status = tasks[t].status
                        /\ task_info'[t] = task_info[t]

C16_DeleteCascade == [][C16_Step]_vars

\* C16 witness: task 1 was deleted in the active sprint while tasks 2 and 3
\* both waited for it; both are AVAILABLE with one more row each
C16_Witness ==
    /\ resp.op = "delete_task" /\ resp.code = 200 /\ resp.id = 1
    /\ {2, 3} \subseteq DOMAIN tasks /\ SprintActive(2) /\ SprintActive(3)
    /\ tasks[2].status = AVAILABLE /\ tasks[2].dependent_on = None
    /\ tasks[3].status = AVAILABLE /\ tasks[3].dependent_on = None
    /\ task_info[2] = <<NOT_AVAILABLE, WAIT, AVAILABLE>>
    /\ task_info[3] = <<NOT_AVAILABLE, WAIT, WAIT, AVAILABLE>>

\* ------------------------------------------------ claims: propagation
\* what a served transition of task id must have done to every other task,
\* `kind` being the dependency kind the transition releases
Propagated(id, kind) ==
    \A t \in DOMAIN tasks \ {id} :
        IF /\ tasks[t].dependent_on = id
           /\ tasks[t].dependency_type = kind
           /\ tasks[t].status = WAIT
        THEN /\ tasks'[t].status = AVAILABLE
             /\ task_info'[t] = Append(task_info[t], AVAILABLE)
        ELSE /\ tasks'[t].status = tasks[t].status
             /\ task_info'[t] = task_info[t]

\* C17: when mark_task_as_complete moves a task to COMPLETE, each of its FS
\* dependents that is in WAIT becomes AVAILABLE with exactly one new TaskInfo
\* row; when start_task moves a task to IN_PROGRESS the same holds for its SS
\* dependents in WAIT; dependents of the other kind and dependents not in
\* WAIT keep their status and get no row.
C17_Step ==
    /\ (resp'.op = "mark_task_as_complete" /\ resp'.code = 200) => Propagated(resp'.id, FS)
    /\ (resp'.op = "start_task" /\ resp'.code = 200) => Propagated(resp'.id, SS)

C17_ReactivePropagation == [][C17_Step]_vars

\* C17 witness: task 1 was started while task 2 (FS) and task 3 (SS) waited
\* for it; task 3 became AVAILABLE with one more row and task 2 still waits
C17_Witness ==
    /\ resp.op = "start_task" /\ resp.code = 200 /\ resp.id = 1
    /\ {2, 3} \subseteq DOMAIN tasks
    /\ tasks[2].dependent_on = 1 /\ tasks[2].dependency_type = FS
    /\ tasks[2].status = WAIT /\ task_info[2] = <<NOT_AVAILABLE, WAIT>>
    /\ tasks[3].dependent_on = 1 /\ tasks[3].dependency_type = SS
    /\ tasks[3].status = AVAILABLE
    /\ task_info[3] = <<NOT_AVAILABLE, WAIT, WAIT, AVAILABLE>>

\* ------------------------------------------------ claims: sprint launch
\* C18: launch_sprint is rejected on a sprint of exactly 5 tasks or fewer: a
\* launch that is served found at least 6 tasks in the sprint.
C18_Step ==
    (resp'.op = "launch_sprint" /\ resp'.code = 200) =>
        Cardinality(sprint_tasks(tasks, resp'.id)) >= 6

C18_MinimumSixTasks == [][C18_Step]_vars

\* the tasks of the sprint whose prerequisite is set and is missing, or is
\* neither in the sprint nor COMPLETE
Offending(T, sprint_id) ==
    {t \in sprint_tasks(T, sprint_id) :
        /\ T[t].dependent_on # None
        /\ \/ T[t].dependent_on \notin DOMAIN T
           \/ /\ T[T[t].dependent_on].sprint_id # sprint_id
              /\ T[T[t].dependent_on].status # COMPLETE}

\* C19: launch_sprint is not served while some task of the sprint has a
\* prerequisite that is missing or neither in the sprint nor COMPLETE, and
\* the error list of a failed dependency validation has exactly one entry
\* for every such task of the sprint.
C19_Step ==
    resp'.op = "launch_sprint" =>
        /\ resp'.code = 200 => Offending(tasks, resp'.id) = {}
        /\ resp'.detail # <<>> =>
            /\ resp'.code = 400
            /\ {resp'.detail[i] : i \in 1..Len(resp'.detail)} = Offending(tasks, resp'.id)
            /\ Len(resp'.detail) = Cardinality(Offending(tasks, resp'.id))

C19_AllViolationsListed == [][C19_Step]_vars

\* C19 witness: the launch of sprint 2 failed its dependency validation with
\* two entries: task 2 depends on task 6, outside the sprint and not
\* complete, and task 3 on a task that does not exist
C19_Witness ==
    /\ resp.op = "launch_sprint" /\ resp.code = 400 /\ resp.id = 2
    /\ Len(resp.detail) = 2
    /\ tasks[2].dependent_on = Outsider /\ tasks[Outsider].status # COMPLETE
    /\ tasks[Outsider].sprint_id # 2
    /\ tasks[3].dependent_on = Deleted

\* C20: launch_sprint is served only on a draft sprint with enough tasks, all
\* of them assigned, that passes the dependency validation; a rejected launch
\* leaves the sprint's flags and dates, every task's status and the
\* transition history unchanged.
C20_Step ==
    resp'.op = "launch_sprint" =>
        IF resp'.code = 200
        THEN /\ resp'.id \in DOMAIN sprints
             /\ ~sprints[resp'.id].is_active /\ ~sprints[resp'.id].is_completed
             /\ Cardinality(sprint_tasks(tasks, resp'.id)) >= MinSprintTasks
             /\ \A t \in sprint_tasks(tasks, resp'.id) : tasks[t].worker_id # None
             /\ Offending(tasks, resp'.id) = {}
             /\ sprints'[resp'.id].is_active
        ELSE UNCHANGED <<tasks, task_info, sprints, projects>>

C20_RejectedLaunchWritesNothing == [][C20_Step]_vars

\* C20 witness: a launch was rejected while sprint 1 is completed and sprint 2
\* already active, and sprint 2 still has the dates of its launch
C20_Witness ==
    /\ resp.op = "launch_sprint" /\ resp.code = 400
    /\ sprints[1].is_completed /\ sprints[2].is_active
    /\ sprints[2].start_date = 2 /\ sprints[2].end_date = 3
    /\ \A t \in sprint_tasks(tasks, 2) : tasks[t].status \in {AVAILABLE, WAIT}

\* ------------------------------------------------ claims: launch outcome
\* position of task t in the sequence order
Position(order, t) == CHOOSE i \in 1..Len(order) : order[i] = t

\* the table the status loop reads when it reaches task t: the tasks before t
\* in the order already carry their new status
AtTurn(order, t) ==
    [u \in DOMAIN tasks |->
        IF u \in sprint_tasks(tasks, tasks[t].sprint_id)
           /\ Position(order, u) < Position(order, t)
        THEN tasks'[u] ELSE tasks[u]]

\* C21: after a served launch_sprint every task of the sprint without a
\* dependency is AVAILABLE unless it was TESTING or FEEDBACK before, and
\* every task with a dependency is AVAILABLE if check_dependency_status held
\* for it when the launch evaluated it (in the order the launch processed the
\* tasks) and WAIT otherwise.
C21_Step ==
    (resp'.op = "launch_sprint" /\ resp'.code = 200) =>
        \E order \in QueryOrders(sprint_tasks(tasks, resp'.id)) :
            \A t \in sprint_tasks(tasks, resp'.id) :
                tasks'[t].status =
                    IF tasks[t].dependent_on = None
                    THEN IF tasks[t].status \in {TESTING, FEEDBACK}
                         THEN tasks[t].status ELSE AVAILABLE
                    ELSE IF check_dependency_status(AtTurn(order, t), tasks[t])
                         THEN AVAILABLE ELSE WAIT

C22_Step ==
    (resp'.op = "launch_sprint" /\ resp'.code = 200) =>
        \A t \in sprint_tasks(tasks, resp'.id) :
            tasks[t].status \in {TESTING, FEEDBACK} =>
                /\ tasks'[t].status = tasks[t].status
                /\ task_info'[t] = task_info[t]

C22_TestingKeptAtLaunch == [][C22_Step]_vars

\* ------------------------------------------------ claims: sprint dates
\* the length in weeks the sprint's duration stands for
Weeks(duration) ==
    IF duration = ONE_WEEK THEN 1
    ELSE IF duration = TWO_WEEKS THEN 2
    ELSE IF duration = THREE_WEEKS THEN 3
    ELSE 4

C23_Dates ==
    \A s \in DOMAIN sprints :
        /\ sprints[s].duration \in SprintDuration
        /\ DRAFT(sprints[s]) =>
            sprints[s].start_date = None /\ sprints[s].end_date = None
        /\ (ACTIVE(sprints[s]) \/ COMPLETED(sprints[s])) =>
            /\ sprints[s].start_date # None /\ sprints[s].end_date # None
            /\ sprints[s].end_date - sprints[s].start_date = Weeks(sprints[s].duration)

C23_Step ==
    /\ (resp'.op = "launch_sprint" /\ resp'.code = 200) =>
            /\ sprints'[resp'.id].start_date = now
            /\ sprints'[resp'.id].is_active
    /\ \A s \in DOMAIN sprints \cap DOMAIN sprints' :
            ~DRAFT(sprints[s]) =>
                /\ sprints'[s].start_date = sprints[s].start_date
                /\ sprints'[s].end_date = sprints[s].end_date
    /\ \A s \in DOMAIN sprints \ DOMAIN sprints' : DRAFT(sprints[s])

\* C23: a DRAFT sprint has no start_date and no end_date; an ACTIVE or
\* COMPLETED sprint has both, end_date - start_date being exactly its
\* duration (1, 2, 3 or 4 weeks); a served launch sets start_date to the
\* launch time and is_active to true, and nothing changes the two dates
\* afterwards.
C23_SprintDates == []C23_Dates /\ [][C23_Step]_vars

\* C23 witness: a sprint launched at time 1 for one week was completed by
\* the monitor at time 2 and still carries start_date 1 and end_date 2,
\* while another sprint is still a draft
C23_Witness ==
    /\ resp.op = "check_sprint_expiration"
    /\ \E s \in DOMAIN sprints :
        /\ COMPLETED(sprints[s])
        /\ sprints[s].duration = ONE_WEEK
        /\ sprints[s].start_date = 1 /\ sprints[s].end_date = 2
        /\ now = 2

\* ------------------------------------------------ claims: sprint expiry
\* the sprints a step of the monitor expired
Expired == {s \in DOMAIN sprints : sprints'[s] # sprints[s]}

\* C24: expiring an active sprint sets is_active = false and is_completed =
\* true, clears the sprint reference of every task of that sprint that is not
\* COMPLETE, keeps the sprint reference of every COMPLETE task, and changes no
\* task's status, dependency or worker and no other sprint.
C24_Step ==
    resp'.op = "check_sprint_expiration" =>
        /\ DOMAIN sprints' = DOMAIN sprints
        /\ DOMAIN tasks' = DOMAIN tasks
        /\ Expired # {}
        /\ \A s \in Expired :
            /\ ACTIVE(sprints[s])
            /\ sprints'[s] = [sprints[s] EXCEPT !.is_active = FALSE, !.is_completed = TRUE]
        /\ \A t \in DOMAIN tasks :
            /\ tasks'[t].sprint_id =
                IF tasks[t].sprint_id \in Expired /\ tasks[t].status # COMPLETE
                THEN None ELSE tasks[t].sprint_id
            /\ tasks'[t].status = tasks[t].status
            /\ tasks'[t].dependent_on = tasks[t].dependent_on
            /\ tasks'[t].dependency_type = tasks[t].dependency_type
            /\ tasks'[t].worker_id = tasks[t].worker_id
            /\ tasks'[t].project_id = tasks[t].project_id
        /\ task_info' = task_info

C24_ExpirationEffect == [][C24_Step]_vars

\* C24 witness: the monitor completed sprint 1 while sprint 2 is still active
\* with its five tasks; tasks 1 and 3 are COMPLETE and still in sprint 1,
\* tasks 2, 4 and 5 are not COMPLETE and are in no sprint
C24_Witness ==
    /\ resp.op = "check_sprint_expiration"
    /\ COMPLETED(sprints[1]) /\ ACTIVE(sprints[2])
    /\ \A t \in {1, 3} : tasks[t].status = COMPLETE /\ tasks[t].sprint_id = 1
    /\ \A t \in {2, 4, 5} : tasks[t].status # COMPLETE /\ tasks[t].sprint_id = None
    /\ tasks[2].dependent_on = 1
    /\ \A t \in FirstOther..LastOther : tasks[t].sprint_id = 2

\* ------------------------------------------------ claims: sprint membership
\* the three requirements of add_task_to_sprint
Addable(sprint_id, task_id) ==
    /\ ~sprints[sprint_id].is_completed
    /\ tasks[task_id].project_id = sprints[sprint_id].project_id
    /\ tasks[task_id].status # COMPLETE

\* C25: add_task_to_sprint is served only if the sprint is not completed, the
\* task belongs to the sprint's project and the task is not COMPLETE; when
\* one of these fails the request is rejected and the task's sprint
\* reference is unchanged.
C25_Step ==
    /\ \A user \in {1, 2}, sprint_id \in DOMAIN sprints, task_id \in DOMAIN tasks :
        add_task_to_sprint(user, sprint_id, task_id) =>
            /\ resp'.code = 200 =>
                Addable(sprint_id, task_id) /\ tasks'[task_id].sprint_id = sprint_id
            /\ ~Addable(sprint_id, task_id) =>
                resp'.code # 200 /\ tasks'[task_id].sprint_id = tasks[task_id].sprint_id
    /\ (resp'.op = "add_task_to_sprint" /\ resp'.code # 200) => tasks' = tasks

C25_AddRequirements == [][C25_Step]_vars

\* C25 witness: the task outside the sprint, not COMPLETE, was added to
\* sprint 2 of its project, and the task of project 2 exists and is in no
\* sprint
C25_Witness ==
    /\ resp.op = "add_task_to_sprint" /\ resp.code = 200
    /\ resp.id = 2 /\ resp.arg = Outsider
    /\ tasks[Outsider].sprint_id = 2 /\ tasks[Outsider].status # COMPLETE
    /\ Foreign \in DOMAIN tasks /\ tasks[Foreign].sprint_id = None

\* C26: remove_task_from_sprint is served only when the task's sprint is a
\* DRAFT; for a task of an active or completed sprint it is rejected and the
\* task keeps its sprint reference; when served, only the task's sprint
\* reference is cleared and its status is unchanged.
C26_Step ==
    /\ \A user \in {1, 2}, task_id \in DOMAIN tasks :
        remove_task_from_sprint(user, task_id) =>
            LET sprint_id == tasks[task_id].sprint_id IN
            /\ resp'.code = 200 =>
                /\ sprint_id \in DOMAIN sprints
                /\ DRAFT(sprints[sprint_id])
                /\ tasks' = [tasks EXCEPT ![task_id].sprint_id = None]
                /\ task_info' = task_info
                /\ sprints' = sprints
            /\ (sprint_id \in DOMAIN sprints /\ ~DRAFT(sprints[sprint_id])) =>
                resp'.code # 200 /\ tasks'[task_id].sprint_id = sprint_id
    /\ (resp'.op = "remove_task_from_sprint" /\ resp'.code # 200) => tasks' = tasks

C26_RemoveOnlyFromDraft == [][C26_Step]_vars

\* C26 witness: task 4 was removed from the draft sprint 2 and kept its
\* status
C26_Witness ==
    /\ resp.op = "remove_task_from_sprint" /\ resp.code = 200 /\ resp.id = 4
    /\ tasks[4].sprint_id = None /\ tasks[4].status = NOT_AVAILABLE
    /\ 2 \in DOMAIN sprints /\ DRAFT(sprints[2])
    /\ tasks[MinSprintTasks].sprint_id = 2

\* C27: the set of tasks that reference an active or completed sprint is
\* changed by nothing but the expiration's bulk clear: no request adds a task
\* to, or removes a task from, an active or completed sprint.
C27_Step ==
    \A s \in DOMAIN sprints :
        (~DRAFT(sprints[s]) /\ resp'.op # "check_sprint_expiration") =>
            sprint_tasks(tasks', s) = sprint_tasks(tasks, s)

C27_MembershipFrozen == [][C27_Step]_vars

\* sprint s is active and its end_date has passed
Due(s) ==
    s \in DOMAIN sprints /\ sprints[s].is_active /\ sprints[s].end_date <= now

\* sprint s is COMPLETED and holds no task that is not COMPLETE
Closed(s) ==
    /\ COMPLETED(sprints[s])
    /\ \A t \in sprint_tasks(tasks, s) : tasks[t].status = COMPLETE

C28_Step ==
    resp'.op = "check_sprint_expiration" =>
        \A s \in Expired :
            /\ sprints[s].is_active
            /\ sprints[s].end_date # None
            /\ sprints[s].end_date <= now

\* C28: when the monitor's cycles are scheduled fairly, every sprint that is
\* active with end_date <= now is eventually COMPLETED with its incomplete
\* tasks unassigned, and the monitor never expires a sprint that is not
\* active or whose end_date has not passed.
C28_MonitorExpires ==
    /\ \A s \in 1..2 : Due(s) ~> Closed(s)
    /\ [][C28_Step]_vars

\* C28 witness: both sprints became due and the monitor closed them: task 1
\* is COMPLETE in sprint 1, task 3 was IN_PROGRESS and is in no sprint
C28_Witness ==
    /\ resp.op = "check_sprint_expiration"
    /\ Closed(1) /\ Closed(2)
    /\ tasks[1].status = COMPLETE /\ tasks[1].sprint_id = 1
    /\ tasks[3].status = IN_PROGRESS /\ tasks[3].sprint_id = None

\* C29: when processing one expired sprint fails inside a cycle, the other
\* expired sprints selected in that cycle are still expired in that cycle,
\* nothing of the failing sprint's expiration becomes visible, and the loop
\* goes on to the next cycle.
C29_Step ==
    (ret.val.pc = "for" /\ ret'.val.pc = "sleep") =>
        /\ \A s \in ret'.val.selected \ {ret'.val.failed} : COMPLETED(sprints'[s])
        /\ ret'.val.failed # None =>
            /\ sprints'[ret'.val.failed] = sprints[ret'.val.failed]
            /\ sprint_tasks(tasks', ret'.val.failed) = sprint_tasks(tasks, ret'.val.failed)
        /\ ret'.val.queue = <<>>

C29_FailureIsolated == [][C29_Step]_vars

\* ------------------------------------------------ claims: monitor races
\* the store after the expiration and then the request, each run alone
MonitorFirst ==
    LET start == ret.val.start
        m == expired_commit(start[1], start[3], expired_read(start[1], start[3], now))
        r == request_commit(m[1], start[2], ret.arg, request_read(m[1], m[2], ret.arg))
    IN  <<r[1], r[2], m[2]>>

\* the store after the request and then the expiration, each run alone
RequestFirst ==
    LET start == ret.val.start
        r == request_commit(start[1], start[2], ret.arg,
                            request_read(start[1], start[3], ret.arg))
        m == expired_commit(r[1], start[3], expired_read(r[1], start[3], now))
    IN  <<m[1], r[2], m[2]>>

\* C30: when the monitor's expiration of a sprint interleaves with a request
\* on the sprint or on one of its tasks, the reads and the commit of each
\* being separate steps, the resulting store equals the store produced by
\* one of the two serial orders of the two operations.
C30_Serializable ==
    (ret.val.monitor = "done" /\ ret.val.handler = "done") =>
        <<tasks, task_info, sprints>> \in {MonitorFirst, RequestFirst}

\* ------------------------------------------------ claims: project completion
\* the tasks of the project that are not COMPLETE
Unfinished(project_id) ==
    {t \in DOMAIN tasks : tasks[t].project_id = project_id /\ tasks[t].status # COMPLETE}

\* C31: complete_project sets the completion flag only when every task of the
\* project is COMPLETE at that moment; if a task of the project is not
\* COMPLETE, or the project is already complete, the request is rejected and
\* the project's completion flag and end date are unchanged.
C31_Step ==
    /\ \A user \in {1, 2}, project_id \in Projects :
        complete_project(user, project_id) =>
            /\ resp'.code = 200 =>
                /\ Unfinished(project_id) = {}
                /\ ~projects[project_id].complete
                /\ projects'[project_id].complete
            /\ (Unfinished(project_id) # {} \/ projects[project_id].complete) =>
                resp'.code # 200 /\ projects' = projects
    /\ (resp'.op = "complete_project" /\ resp'.code # 200) => projects' = projects
    /\ projects' # projects => (resp'.op = "complete_project" /\ resp'.code = 200)

C31_CompleteProject == [][C31_Step]_vars

\* C31 witness: the clock advanced and the owner's complete_project(1) was
\* served: project 1 is complete since time 2 and all its tasks are COMPLETE,
\* project 2 is not complete
C31_Witness ==
    /\ resp.op = "complete_project" /\ resp.code = 200 /\ resp.id = 1
    /\ projects[1].complete /\ projects[1].end_date = 2
    /\ Unfinished(1) = {}
    /\ ~projects[2].complete

\* ------------------------------------------------ claims: propagation depth
\* C32: propagation is one level deep: a served start_task or
\* mark_task_as_complete on task T changes the status of T and of direct
\* dependents of T only; a task whose prerequisite is a dependent of T keeps
\* its status in that step, and in the chain 1 <- 2 <- 3 (task 3 an FS
\* dependent of task 2) task 3 leaves WAIT for AVAILABLE only in the step in
\* which task 2 itself becomes COMPLETE.
C32_Step ==
    /\ (resp'.op \in {"start_task", "mark_task_as_complete"} /\ resp'.code = 200) =>
        \A t \in DOMAIN tasks :
            tasks'[t].status # tasks[t].status =>
                (t = resp'.id \/ tasks[t].dependent_on = resp'.id)
    /\ (tasks[3].status = WAIT /\ tasks'[3].status = AVAILABLE) =>
        /\ resp'.op = "mark_task_as_complete" /\ resp'.id = 2
        /\ tasks'[2].status = COMPLETE

C32_OneLevel == [][C32_Step]_vars

\* C32 witness: task 1 is COMPLETE, task 2 has just been completed and task 3,
\* which waited through the completion of task 1, is AVAILABLE
C32_Witness ==
    /\ resp.op = "mark_task_as_complete" /\ resp.code = 200 /\ resp.id = 2
    /\ tasks[1].status = COMPLETE /\ tasks[2].status = COMPLETE
    /\ tasks[2].dependent_on = 1 /\ tasks[3].dependent_on = 2
    /\ tasks[3].status = AVAILABLE
    /\ task_info[3] = <<NOT_AVAILABLE, WAIT, AVAILABLE>>

\* ------------------------------------------------ claims: dependency removal
\* C33: removing a task's dependency while the task's sprint is active never
\* blocks the task: whether the prerequisite is deleted (delete_task) or
\* update_task_dependency is served with no dependent_on, the task's
\* resulting status is AVAILABLE, never NOT_AVAILABLE or WAIT.
C33_Step ==
    /\ (resp'.op = "update_task_dependency" /\ resp'.code = 200 /\ resp'.arg = None
        /\ tasks[resp'.id].dependent_on # None /\ in_active_sprint(tasks[resp'.id])) =>
            tasks'[resp'.id].status = AVAILABLE
    /\ (resp'.op = "delete_task" /\ resp'.code = 200) =>
        \A t \in DOMAIN tasks' :
            (tasks[t].dependent_on = resp'.id /\ in_active_sprint(tasks[t])) =>
                tasks'[t].status = AVAILABLE

C33_RemovalUnblocks == [][C33_Step]_vars

\* ------------------------------------------------ claims: transition history
\* the rows of task t before the step are the first rows of task t after it
Kept(t) ==
    /\ t \in DOMAIN task_info'
    /\ Len(task_info'[t]) >= Len(task_info[t])
    /\ SubSeq(task_info'[t], 1, Len(task_info[t])) = task_info[t]

\* C34: the transition history is append-only: a record of a task that still
\* exists is never modified or removed, and records disappear only with their
\* own task in delete_task, which removes all records of the deleted task and
\* none of any other task.
C34_Step ==
    /\ \A t \in DOMAIN task_info :
        \/ Kept(t)
        \/ /\ resp'.op = "delete_task" /\ resp'.code = 200 /\ resp'.id = t
           /\ t \notin DOMAIN tasks'
           /\ t \notin DOMAIN task_info'
    /\ (resp'.op = "delete_task" /\ resp'.code = 200) =>
        /\ resp'.id \notin DOMAIN task_info'
        /\ \A t \in DOMAIN task_info \ {resp'.id} : Kept(t)

C34_AppendOnly == [][C34_Step]_vars

\* C34 witness: task 1 was deleted with its rows while task 2, its dependent
\* in the active sprint, kept its rows and got one more
C34_Witness ==
    /\ resp.op = "delete_task" /\ resp.code = 200 /\ resp.id = 1
    /\ 1 \notin DOMAIN task_info
    /\ 2 \in DOMAIN task_info /\ Len(task_info[2]) >= 3
    /\ task_info[2][1] = NOT_AVAILABLE
    /\ task_info[2][Len(task_info[2])] = AVAILABLE

\* C35: every existing task has at least one transition record, and the
\* record appended last for a task carries the task's current status.
C35_HistoryCurrent ==
    /\ DOMAIN task_info = DOMAIN tasks
    /\ \A t \in DOMAIN tasks :
        /\ Len(task_info[t]) >= 1
        /\ task_info[t][Len(task_info[t])] = tasks[t].status

\* C35 witness: after the launch task 1 was started and sent to testing and
\* task 3 lost its prerequisite, task 2, by a delete_task: tasks 1 and 3 have
\* the rows of their path, the last one being their status
C35_Witness ==
    /\ resp.op = "delete_task" /\ resp.code = 200 /\ resp.id = 2
    /\ DOMAIN tasks = {1, 3, 4, 5}
    /\ tasks[1].status = TESTING /\ Len(task_info[1]) = 4
    /\ tasks[3].status = AVAILABLE /\ tasks[3].dependent_on = None
    /\ task_info[3] = <<NOT_AVAILABLE, WAIT, AVAILABLE>>

\* ------------------------------------------------ claims: sprint references
\* C36: in every state reached by whole operations, every task that
\* references a COMPLETED sprint has status COMPLETE, and every task's sprint
\* reference points to a sprint that exists.
C36_References ==
    \A t \in DOMAIN tasks :
        tasks[t].sprint_id # None =>
            /\ tasks[t].sprint_id \in DOMAIN sprints
            /\ COMPLETED(sprints[tasks[t].sprint_id]) => tasks[t].status = COMPLETE

\* C36 witness: sprint 1 has ended; task 2, COMPLETE, still references it and
\* has had its dependency rewritten since; task 1, not COMPLETE, was added to
\* the draft sprint 2
C36_Witness ==
    /\ resp.op = "add_task_to_sprint" /\ resp.code = 200
    /\ DOMAIN sprints = {1, 2}
    /\ COMPLETED(sprints[1])
    /\ tasks[2].status = COMPLETE /\ tasks[2].sprint_id = 1
    /\ task_info[2][Len(task_info[2])] = COMPLETE /\ Len(task_info[2]) > 5
    /\ DRAFT(sprints[2])
    /\ tasks[1].status # COMPLETE /\ tasks[1].sprint_id = 2

\* ------------------------------------------------ claims: launch order
\* C37: after a served launch_sprint every task of the sprint that has a
\* dependency is AVAILABLE exactly when check_dependency_status holds for it
\* on the statuses the launch left behind, and WAIT otherwise, whatever the
\* order in which the launch processed the tasks.
C37_Step ==
    (resp'.op = "launch_sprint" /\ resp'.code = 200) =>
        \A t \in sprint_tasks(tasks, resp'.id) :
            tasks[t].dependent_on # None =>
                tasks'[t].status =
                    IF check_dependency_status(tasks', tasks'[t])
                    THEN AVAILABLE ELSE WAIT

C37_LaunchOrderFree == [][C37_Step]_vars

\* ------------------------------------------------ claims: blocked tasks
\* C38: a task of an active sprint that is in WAIT has a dependency, and
\* check_dependency_status does not hold for it.
C38_BlockedWithCause ==
    \A t \in DOMAIN tasks :
        (/\ tasks[t].status = WAIT
         /\ tasks[t].sprint_id \in DOMAIN sprints
         /\ ACTIVE(sprints[tasks[t].sprint_id])) =>
            /\ tasks[t].dependent_on # None
            /\ ~check_dependency_status(tasks, tasks[t])

\* ------------------------------------------------ claims: concurrent requests
\* C39: with two create_sprint requests whose check and insert are separate
\* steps, no project ever has two sprints that are not completed.
C39_OneOpenSprint ==
    \A p \in Projects :
        Cardinality({s \in DOMAIN sprints :
                        sprints[s].project_id = p /\ ~sprints[s].is_completed}) <= 1

\* C40: with two update_task_dependency requests on different tasks whose
\* checks and write are separate steps, the dependent_on relation has no
\* cycle once both have committed.
C40_NoCycleCommitted ==
    (/\ ret.fn = "update_task_dependency"
     /\ \A r \in 1..2 : ret.val[r].at = "done" /\ ret.val[r].code = 200
     /\ ret.arg[1].task_id # ret.arg[2].task_id) =>
        Acyclic(tasks)

====
